---- MODULE Spec2Model ----
(***************************************************************************)
(* A model of the IOC blocklist manager (backend/app): the indicator       *)
(* classifier and exclusion matcher of services/validation.py, the          *)
(* membership engine of services/ioc_service.py, the rule management of     *)
(* services/exclusion_service.py and the feed writer of                     *)
(* services/edl_generator.py, run by concurrent request handlers that       *)
(* share one relational store and one feed directory.                       *)
(*                                                                          *)
(* Strings are modelled by their token structure (an address, a network,    *)
(* a dotted name, a hex digest, other text) together with the two           *)
(* properties the code rewrites: surrounding whitespace and letter case.    *)
(* Addresses are AddrBits wide instead of 32/128.                           *)
(***************************************************************************)
EXTENDS Integers, Sequences, FiniteSets, Bags, TLC

\* ------------------------------------------------------------------ bounds
AddrBits == 8
MaxCalls == 2
MaxBatch == 2
MaxLogins == 6
MaxClock == 20

\* ----------------------------------------------------------------- strings
None == "None"

MkStr(t, fam, a, n, star, labels, len) ==
  [t |-> t, fam |-> fam, a |-> a, n |-> n, star |-> star, labels |-> labels,
   len |-> len, ws |-> FALSE, up |-> FALSE]

\* "a.b.c.d" or "x:y::z": one address of family fam
Addr(fam, a) == MkStr("addr", fam, a, 0, FALSE, <<>>, 0)
\* "a.b.c.d/n": address text followed by a prefix length
Net(fam, a, n) == MkStr("net", fam, a, n, FALSE, <<>>, 0)
\* "mail.bad.com"
Name(labels) == MkStr("name", 0, 0, 0, FALSE, labels, 0)
\* "*.bad.com"
Wild(labels) == MkStr("name", 0, 0, 0, TRUE, labels, 0)
\* len hexadecimal digits
Hex(len) == MkStr("hex", 0, 0, 0, FALSE, <<>>, len)
\* text that is none of the above, and the empty string
Junk == MkStr("junk", 0, 0, 0, FALSE, <<>>, 0)
Empty == MkStr("empty", 0, 0, 0, FALSE, <<>>, 0)

\* the same text with blanks around it / written in capital letters
Pad(s) == [s EXCEPT !.ws = TRUE]
Upper(s) == [s EXCEPT !.up = TRUE]

\* str.strip(): blanks around the text removed (nothing is left of blanks only)
strip(s) == [s EXCEPT !.ws = FALSE]
\* str.lower()
lower(s) == [s EXCEPT !.up = FALSE]

\* ------------------------------------------------------- ipaddress library
\* ipaddress.ip_address(text): the address, or ValueError
ip_address(s) ==
  IF s.t = "addr" /\ ~s.ws THEN [ok |-> TRUE, fam |-> s.fam, a |-> s.a]
  ELSE [ok |-> FALSE, fam |-> 0, a |-> 0]

\* the network address of a/n: host bits cleared
MaskHost_keep(a, n) == a
MaskHost(a, n) == a - (a % (2 ^ (AddrBits - n)))

\* ipaddress.ip_network(text, strict=False): the network, or ValueError
ip_network(s) ==
  IF s.ws \/ s.t \notin {"addr", "net"} THEN [ok |-> FALSE, fam |-> 0, a |-> 0, n |-> 0]
  ELSE IF s.t = "addr" THEN [ok |-> TRUE, fam |-> s.fam, a |-> s.a, n |-> AddrBits]
  ELSE IF s.n > AddrBits THEN [ok |-> FALSE, fam |-> 0, a |-> 0, n |-> 0]
  ELSE [ok |-> TRUE, fam |-> s.fam, a |-> MaskHost(s.a, s.n), n |-> s.n]

\* str(address), str(network): the canonical lower-case text
StrOfAddress(ip) == Addr(ip.fam, ip.a)
StrOfNetwork(nw) == Net(nw.fam, nw.a, nw.n)

\* address in network: False across families
InNetwork(ip, nw) == ip.fam = nw.fam /\ MaskHost(ip.a, nw.n) = nw.a

Broadcast(nw) == nw.a + (2 ^ (AddrBits - nw.n)) - 1

\* a.subnet_of(b): TypeError across families
subnet_of_swapped(a, b) ==
  IF a.fam # b.fam THEN "TypeError"
  ELSE IF a.a <= b.a /\ Broadcast(a) >= Broadcast(b) THEN "True" ELSE "False"
subnet_of(a, b) ==
  IF a.fam # b.fam THEN "TypeError"
  ELSE IF b.a <= a.a /\ Broadcast(b) >= Broadcast(a) THEN "True" ELSE "False"

\* ------------------------------------------------ services/validation.py
\* the label sequences the regexes accept: labels of letters, digits and
\* inner hyphens, the last one at least two letters; at least two labels
LabelsOk(labels) == Len(labels) >= 2

DOMAIN_REGEX(s) == s.t = "name" /\ ~s.ws /\ ~s.star /\ LabelsOk(s.labels)
WILDCARD_REGEX(s) == s.t = "name" /\ ~s.ws /\ s.star /\ LabelsOk(s.labels)
MD5_REGEX(s) == s.t = "hex" /\ ~s.ws /\ s.len = 32
SHA1_REGEX(s) == s.t = "hex" /\ ~s.ws /\ s.len = 40
SHA256_REGEX(s) == s.t = "hex" /\ ~s.ws /\ s.len = 64

Valid(v, ty) == [ok |-> TRUE, value |-> v, type |-> ty]
ValidationError == [ok |-> FALSE, value |-> Empty, type |-> None]

validate_ioc(raw) ==
  LET value == strip(raw) IN
  IF value.t = "empty" THEN ValidationError
  ELSE IF ip_address(value).ok THEN Valid(StrOfAddress(ip_address(value)), "ip")
  ELSE IF ip_network(value).ok THEN Valid(StrOfNetwork(ip_network(value)), "ip")
  ELSE IF SHA256_REGEX(value) THEN Valid(lower(value), "sha256")
  ELSE IF SHA1_REGEX(value) THEN Valid(lower(value), "sha1")
  ELSE IF MD5_REGEX(value) THEN Valid(lower(value), "md5")
  ELSE IF WILDCARD_REGEX(value) THEN Valid(lower(value), "wildcard")
  ELSE IF DOMAIN_REGEX(value) THEN Valid(lower(value), "domain")
  ELSE ValidationError

is_ioc_type_allowed_no_domain_rule(ioc_type, list_type) ==
  list_type \in {"mixed", "domain"}
    \/ (list_type = "ip" /\ ioc_type = "ip")
    \/ (list_type = "hash" /\ ioc_type \in {"md5", "sha1", "sha256"})

is_ioc_type_allowed(ioc_type, list_type) ==
  IF list_type = "mixed" THEN TRUE
  ELSE IF list_type = "ip" THEN ioc_type = "ip"
  ELSE IF list_type = "domain" THEN ioc_type \in {"domain", "wildcard"}
  ELSE IF list_type = "hash" THEN ioc_type \in {"md5", "sha1", "sha256"}
  ELSE FALSE

\* the CIDR branch of _matches_exclusion: "True", "False" or "TypeError"
\* (subnet_of across address families is not a ValueError and is not caught)
CidrCheck(value, excl_value) ==
  LET network == ip_network(excl_value)
      ip == ip_address(value)
      value_network == ip_network(value)
  IN IF ~network.ok THEN "False"
     ELSE IF ip.ok THEN (IF InNetwork(ip, network) THEN "True" ELSE "False")
     ELSE IF ~value_network.ok THEN "False"
     ELSE subnet_of(value_network, network)

\* str.startswith("*.") and str.endswith(suffix) on dotted names, the suffix
\* being the pattern without its star: ".internal.corp"
StartsWithStarDot(s) == s.t = "name" /\ s.star
IsSuffix(sfx, seq) ==
  Len(sfx) <= Len(seq)
    /\ \A i \in 1..Len(sfx) : seq[Len(seq) - Len(sfx) + i] = sfx[i]
\* value ends with "." + labels: a proper label suffix, or (for a value that
\* itself starts with "*.") all of its labels
EndsWithDotLabels(value, labels) ==
  value.t = "name" /\ value.up = FALSE /\ IsSuffix(labels, value.labels)
    /\ (Len(labels) < Len(value.labels) \/ value.star)

_matches_exclusion(value, ioc_type, exclusion) ==
  IF exclusion.type = "domain" /\ ioc_type = "domain" /\ value = lower(exclusion.value)
  THEN "True"
  ELSE LET cidr == IF exclusion.type = "cidr" /\ ioc_type = "ip"
                   THEN CidrCheck(value, exclusion.value) ELSE "False"
       IN IF cidr # "False" THEN cidr
          ELSE IF exclusion.type = "wildcard" /\ ioc_type = "domain"
                    /\ StartsWithStarDot(lower(exclusion.value))
                    /\ EndsWithDotLabels(value, lower(exclusion.value).labels)
          THEN "True"
          ELSE IF exclusion.type = "ip" /\ ioc_type = "ip" /\ value = exclusion.value
          THEN "True"
          ELSE "False"

ExclusionMatch(excl) ==
  [res |-> "match", exclusion_id |-> excl.id, value |-> excl.value, reason |-> excl.reason]
NoMatch == [res |-> "none", exclusion_id |-> 0, value |-> Empty, reason |-> None]
MatchRaised == [res |-> "TypeError", exclusion_id |-> 0, value |-> Empty, reason |-> None]

\* check_exclusions scans the rows in the order the store returned them, which
\* the query leaves unspecified: the possible results are the match of any rule
\* that matches, TypeError if some rule raises, None if no rule does either
check_exclusions(value, ioc_type, excls) ==
  LET value_lower == lower(value)
      res(e) == _matches_exclusion(value_lower, ioc_type, e)
  IN {ExclusionMatch(e) : e \in {x \in excls : res(x) = "True"}}
       \cup (IF \E e \in excls : res(e) = "TypeError" THEN {MatchRaised} ELSE {})
       \cup (IF \A e \in excls : res(e) = "False" THEN {NoMatch} ELSE {})

\* ------------------------------------------ services/exclusion_service.py
\* "." in value
HasDot(s) ==
  \/ s.t = "name" /\ (s.star \/ Len(s.labels) >= 2)
  \/ s.t \in {"addr", "net"} /\ s.fam = 4

detect_exclusion_type(raw) ==
  LET value == lower(strip(raw)) IN
  IF ip_address(value).ok THEN "ip"
  ELSE IF ip_network(value).ok THEN "cidr"
  ELSE IF StartsWithStarDot(value) THEN "wildcard"
  ELSE IF HasDot(value) THEN "domain"
  ELSE None

\* "True", "False" or "TypeError" (subnet_of across address families)
_ioc_matches_exclusion(ioc_value, ioc_type, excl_value, excl_type) ==
  LET excl_value_lower == lower(excl_value)
      cidr == IF excl_type = "cidr" /\ ioc_type = "ip"
              THEN CidrCheck(ioc_value, excl_value_lower) ELSE "False"
  IN IF cidr # "False" THEN cidr
     ELSE IF excl_type = "wildcard" /\ ioc_type \in {"domain", "wildcard"}
               /\ StartsWithStarDot(excl_value_lower)
               /\ EndsWithDotLabels(ioc_value, excl_value_lower.labels)
     THEN "True"
     ELSE IF excl_type = "domain" /\ ioc_type = "domain" /\ ioc_value = excl_value_lower
     THEN "True"
     ELSE IF excl_type = "ip" /\ ioc_type = "ip" /\ ioc_value = excl_value_lower
     THEN "True"
     ELSE "False"

\* ------------------------------------------- services/edl_generator.py
\* the characters of a string, as code points, for str comparison
Digits(k) == IF k < 10 THEN <<48 + k>> ELSE <<48 + ((k \div 10) % 10), 48 + (k % 10)>>
Digits3(k) == IF k < 100 THEN Digits(k) ELSE <<48 + (k \div 100)>> \o Digits(k % 100)
LabelChars(l) ==
  CASE l = "bad" -> <<98, 97, 100>>
    [] l = "com" -> <<99, 111, 109>>
    [] l = "mail" -> <<109, 97, 105, 108>>
    [] OTHER -> <<122>>
RECURSIVE JoinLabels(_)
JoinLabels(labels) ==
  IF labels = <<>> THEN <<>>
  ELSE IF Len(labels) = 1 THEN LabelChars(labels[1])
  ELSE LabelChars(labels[1]) \o <<46>> \o JoinLabels(Tail(labels))
Chars(s) ==
  CASE s.t = "addr" -> Digits3(s.a) \o (IF s.fam = 6 THEN <<58, 58>> ELSE <<>>)
    [] s.t = "net" -> Digits3(s.a) \o (IF s.fam = 6 THEN <<58, 58>> ELSE <<>>)
                        \o <<47>> \o Digits(s.n)
    [] s.t = "name" -> (IF s.star THEN <<42, 46>> ELSE <<>>) \o JoinLabels(s.labels)
    [] s.t = "hex" -> [i \in 1..s.len |-> 97]
    [] s.t = "junk" -> <<33>>
    [] OTHER -> <<>>

\* str.__lt__: lexicographic order of the code points
RECURSIVE SeqLess(_, _)
SeqLess(u, v) ==
  IF u = <<>> THEN v # <<>>
  ELSE IF v = <<>> THEN FALSE
  ELSE IF Head(u) # Head(v) THEN Head(u) < Head(v)
  ELSE SeqLess(Tail(u), Tail(v))
StrLess(a, b) == SeqLess(Chars(a), Chars(b))

\* sorted(lines)
RECURSIVE sorted(_)
sorted(lines) ==
  IF lines = {} THEN <<>>
  ELSE LET m == CHOOSE x \in lines : \A y \in lines \ {x} : StrLess(x, y)
       IN <<m>> \o sorted(lines \ {m})

\* ------------------------------------------------------------ the system
Procs == {1, 2}

\* the values and list identifiers the callers send
V_PUBLIC == Pad(Addr(4, 136))
V_PRIVATE == Addr(4, 165)
V_DOMAIN == Upper(Name(<<"bad", "com">>))
V_NET6 == Net(6, 33, 6)
RawPool == {V_PUBLIC, V_PRIVATE, V_DOMAIN, V_NET6, Junk}
SlugChoices == {<<>>, <<"x">>, <<"y">>, <<"x", "y">>, <<"x", "z", "w">>}
BulkSlugs == {"x", "y", "z"}
Slugs == {"x", "y", "z", "w"}
CommentPool == {None, "note"}
\* batches: a run of one value closed by another
Batch(k, first, last) == [i \in 1..k |-> IF i = k THEN last ELSE first]
BatchPool ==
  {Batch(k, V_PUBLIC, w) : k \in 1..MaxBatch, w \in RawPool}
    \cup {Batch(k, V_PRIVATE, V_PUBLIC) : k \in 2..MaxBatch}

\* rows seeded at first start-up (seeder.py) and one rule an administrator added
SeededExclusions ==
  { [id |-> 1, value |-> Name(<<"com">>), type |-> "domain",
     reason |-> "Top-level domain", is_builtin |-> TRUE],
    [id |-> 8, value |-> Net(4, 160, 4), type |-> "cidr",
     reason |-> "RFC1918 private range", is_builtin |-> TRUE] }
UserExclusions ==
  { [id |-> 13, value |-> Net(6, 32, 4), type |-> "cidr",
     reason |-> "lab range", is_builtin |-> FALSE] }
LastExclusionId == 13
InitLists ==
  { [id |-> 1, name |-> <<"X">>, slug |-> "x", list_type |-> "domain"],
    [id |-> 2, name |-> <<"Y">>, slug |-> "y", list_type |-> "mixed"] }

Missing == <<MkStr("no file", 0, 0, 0, FALSE, <<>>, 0)>>

VARIABLES
  iocs,        \* committed rows of table iocs: [id, value, type]
  list_iocs,   \* committed rows of list_iocs, a bag of [list_id, ioc_id, added_by]
  comments,    \* committed rows of ioc_comments, a bag of [ioc_id, comment, source]
  audit,       \* committed rows of ioc_audit_log, a bag
  lists,       \* committed rows of lists: [id, name, slug, list_type]
  exclusions,  \* committed rows of exclusions
  files,       \* the feed directory: slug -> lines of the file, or Missing
  ioc_id_seq,  \* the id sequence of table iocs (not transactional)
  excl_id_seq, \* the id sequence of table exclusions
  proc,        \* per request handler: its call, locals and open transaction
  ncalls,      \* calls started so far
  fs_failed,   \* some feed write has failed so far
  users,       \* committed rows of ui_users: username -> [password, failed_attempts,
               \* locked_until]
  clock,       \* the wall clock, in minutes
  probe        \* the arguments and results of a function evaluated on its own

vars == <<iocs, list_iocs, comments, audit, lists, exclusions, files,
          ioc_id_seq, excl_id_seq, proc, ncalls, fs_failed, users, clock, probe>>

DB == <<iocs, list_iocs, comments, audit, lists, exclusions>>

\* the identity of the caller recorded as added_by
Actor(p) == IF p = 1 THEN "api" ELSE "mcp"

NoError == [kind |-> None, match |-> NoMatch, missing |-> {}, ioc_type |-> None,
            list_type |-> None, constraint |-> None, status_code |-> 0,
            detail |-> None]
Ok == [NoError EXCEPT !.kind = "ok"]
Raised(kind) == [NoError EXCEPT !.kind = kind]
IntegrityError(constraint) ==
  [NoError EXCEPT !.kind = "IntegrityError", !.constraint = constraint]
IOCExcludedError(match) == [NoError EXCEPT !.kind = "IOCExcludedError", !.match = match]
ListNotFoundError(missing) ==
  [NoError EXCEPT !.kind = "ListNotFoundError", !.missing = missing]
HTTPException(status_code, detail) ==
  [NoError EXCEPT !.kind = "HTTPException", !.status_code = status_code,
                  !.detail = detail]
ListTypeMismatchError(ioc_type, list_type) ==
  [NoError EXCEPT !.kind = "ListTypeMismatchError", !.ioc_type = ioc_type,
                  !.list_type = list_type]

NoResults == [added |-> <<>>, skipped |-> <<>>, failed |-> <<>>,
              removed |-> <<>>, not_found |-> <<>>, purged |-> {}, returned |-> None, ioc |-> {}]
\* the value a call returns to its caller
Returned(c, x) == [c EXCEPT !.results.returned = x]
ReturnedRow(c, row) == [c EXCEPT !.results.returned = "IOC", !.results.ioc = {row}]

\* a display name that was not sent, a time that is not set
NoName == <<>>
NoTime == -1

NoUser ==
  LET none == [hashed_password |-> None, failed_attempts |-> 0, locked_until |-> NoTime]
  IN [loaded |-> none, ok |-> FALSE, new |-> none]
Idle ==
  [op |-> "idle", pc |-> "idle", value |-> Empty, values |-> <<>>, list_slugs |-> <<>>,
   comment |-> None, added_by |-> None, normalized_value |-> Empty, ioc_type |-> None,
   loaded |-> {}, lists |-> {}, ioc_id |-> 0, is_new |-> FALSE, existing_list_ids |-> {},
   new_iocs |-> {}, new_links |-> EmptyBag, new_comments |-> EmptyBag,
   new_audit |-> EmptyBag, i |-> 0, results |-> NoResults, before |-> {},
   seen |-> {}, all_lists |-> FALSE, del_iocs |-> {}, del_links |-> {},
   purge_conflicts |-> FALSE, excl_type |-> None, conflicts |-> {},
   affected_slugs |-> {}, regen |-> <<>>, lines |-> {}, outcome |-> NoError,
   name |-> NoName, list_type |-> None, excl_id |-> 0,
   username |-> None, password |-> None, user |-> NoUser]

\* a finished call: inputs, results and outcome kept, locals and session dropped
Finish(c, outcome) ==
  [Idle EXCEPT !.op = c.op, !.pc = "done", !.value = c.value, !.values = c.values,
               !.list_slugs = c.list_slugs, !.comment = c.comment,
               !.added_by = c.added_by, !.results = c.results, !.before = c.before,
               !.all_lists = c.all_lists, !.purge_conflicts = c.purge_conflicts,
               !.name = c.name, !.list_type = c.list_type,
               !.excl_id = c.excl_id, !.username = c.username,
               !.password = c.password, !.outcome = outcome]

Range(f) == {f[i] : i \in DOMAIN f}

\* ui_users after seeding: one administrator (seeder.py seed_database)
InitUsers ==
  [u \in {"admin"} |-> [hashed_password |-> "secret", failed_attempts |-> 0,
                        locked_until |-> NoTime]]
NoProbe == [op |-> None]

\* the state after start-up, with the exclusion rules the store holds then
InitWith(rules, pr) ==
  /\ iocs = {}
  /\ list_iocs = EmptyBag
  /\ comments = EmptyBag
  /\ audit = EmptyBag
  /\ lists = InitLists
  /\ exclusions = rules
  /\ files = [s \in Slugs |-> Missing]
  /\ ioc_id_seq = 0
  /\ excl_id_seq = LastExclusionId
  /\ proc = [p \in Procs |-> Idle]
  /\ ncalls = 0
  /\ fs_failed = FALSE
  /\ users = InitUsers
  /\ clock = 0
  /\ probe = pr

Init == InitWith(SeededExclusions \cup UserExclusions, NoProbe)

CanCall(p) == proc[p].pc \in {"idle", "done"} /\ ncalls < MaxCalls

\* --------------------------------------------------------------- storage
\* INSERT into iocs under the unique index on value: the insert waits while
\* another open transaction holds an uncommitted row of the same value
UniqueViolation_no_index(value, rows) == FALSE
UniqueViolation(value, rows) == \E r \in rows : r.value = value
InsertWaits(p, value) ==
  \E q \in Procs \ {p} : \E r \in proc[q].new_iocs : r.value = value

IOCAuditLog(ioc_id, action, list_id, performed_by) ==
  [ioc_id |-> ioc_id, action |-> action, list_id |-> list_id,
   performed_by |-> performed_by]
log_ioc_created_none(ioc_id, performed_by) == EmptyBag
log_ioc_created(ioc_id, performed_by) ==
  SetToBag({IOCAuditLog(ioc_id, "created", 0, performed_by)})
log_ioc_added_to_list(ioc_id, list_id, performed_by) ==
  SetToBag({IOCAuditLog(ioc_id, "added_to_list", list_id, performed_by)})
log_ioc_removed_from_list(ioc_id, list_id) ==
  SetToBag({IOCAuditLog(ioc_id, "removed_from_list", list_id, None)})
ListIOC(list_id, ioc_id, added_by) ==
  [list_id |-> list_id, ioc_id |-> ioc_id, added_by |-> added_by]
IOCComment(ioc_id, comment, source) ==
  [ioc_id |-> ioc_id, comment |-> comment, source |-> source]

\* the list ids an indicator is linked to, among the rows in bag links
LinkedListIds(ioc_id, links) ==
  {l.list_id : l \in {x \in BagToSet(links) : x.ioc_id = ioc_id}}

\* the unique constraint uq_list_ioc at the flush of new links
LinkViolation(new, links) ==
  \E l \in BagToSet(new) :
    \/ CopiesIn(l, new) > 1
    \/ \E k \in BagToSet(links) : k.list_id = l.list_id /\ k.ioc_id = l.ioc_id

\* the foreign keys to iocs.id: a row that refers to an indicator that is gone
\* (or was never committed) is refused at the flush
ForeignKeyViolation(rows, indicators) ==
  \E r \in BagToSet(rows) : r.ioc_id \notin {x.id : x \in indicators}

\* DELETE of indicators (with the rows that cascade from them) and of links
DeleteFrom(B, ioc_ids) ==
  [r \in {x \in DOMAIN B : x.ioc_id \notin ioc_ids} |-> B[r]]
DeleteLinks_named_only(B, ioc_ids, links) ==
  [r \in {x \in DOMAIN B :
            [list_id |-> x.list_id, ioc_id |-> x.ioc_id] \notin links} |-> B[r]]
DeleteLinks(B, ioc_ids, links) ==
  [r \in {x \in DOMAIN B :
            /\ x.ioc_id \notin ioc_ids
            /\ [list_id |-> x.list_id, ioc_id |-> x.ioc_id] \notin links} |-> B[r]]

\* the orders in which a set of slugs can be iterated
Orders(S) == {q \in [1..Cardinality(S) -> S] : Range(q) = S}

\* the values of the members of list row l
Members(l) ==
  {r.value : r \in {x \in iocs : l.id \in LinkedListIds(x.id, list_iocs)}}

\* ------------------------------------------- services/ioc_service.py add_ioc
\* lines 62-66: the call starts; validate_ioc runs before the first await
add_ioc_start(p, values, slug_choices, comment_choices) ==
  /\ CanCall(p)
  /\ \E value \in values, list_slugs \in slug_choices, comment \in comment_choices :
       LET v == validate_ioc(value)
           c == [Idle EXCEPT !.op = "add_ioc", !.value = value,
                             !.list_slugs = list_slugs, !.comment = comment,
                             !.added_by = Actor(p)]
       IN proc' = [proc EXCEPT ![p] =
            IF ~v.ok THEN Finish(c, Raised("IOCValidationError"))
            ELSE [c EXCEPT !.pc = "check_exclusions", !.normalized_value = v.value,
                           !.ioc_type = v.type]]
  /\ ncalls' = ncalls + 1
  /\ UNCHANGED <<DB, files, ioc_id_seq, fs_failed, excl_id_seq, users, clock, probe>>

add_ioc_call(p) == add_ioc_start(p, RawPool, SlugChoices, CommentPool)

\* lines 68-74: load the exclusion rows, check, raise on a match
add_ioc_check_exclusions(p) ==
  LET c == proc[p] IN
  /\ c.op = "add_ioc" /\ c.pc = "check_exclusions"
  /\ \E match \in check_exclusions(c.normalized_value, c.ioc_type, exclusions) :
       proc' = [proc EXCEPT ![p] =
         IF match.res = "TypeError" THEN Finish(c, Raised("TypeError"))
         ELSE IF match.res = "match" THEN Finish(c, IOCExcludedError(match))
         ELSE [c EXCEPT !.pc = IF c.list_slugs = <<>> THEN "get_ioc" ELSE "get_lists"]]
  /\ UNCHANGED <<DB, files, ioc_id_seq, ncalls, fs_failed, excl_id_seq, users, clock, probe>>

\* line 83: the requested slugs that name no list
MissingSlugs_first(list_slugs, found) ==
  LET idx == {i \in 1..Len(list_slugs) : list_slugs[i] \notin {l.slug : l \in found}}
  IN IF idx = {} THEN {}
     ELSE {list_slugs[CHOOSE i \in idx : \A j \in idx : i <= j]}
MissingSlugs(list_slugs, found) == Range(list_slugs) \ {l.slug : l \in found}

\* lines 76-92: resolve the lists, all or nothing, then the type policy
add_ioc_get_lists(p) ==
  LET c == proc[p]
      found == {l \in lists : l.slug \in Range(c.list_slugs)}
      missing == MissingSlugs(c.list_slugs, found)
      denied == {l \in found : ~is_ioc_type_allowed(c.ioc_type, l.list_type)}
  IN
  /\ c.op = "add_ioc" /\ c.pc = "get_lists"
  /\ \/ /\ missing # {}
        /\ proc' = [proc EXCEPT ![p] = Finish(c, ListNotFoundError(missing))]
     \/ /\ missing = {} /\ denied # {}
        /\ \E l \in denied :
             proc' = [proc EXCEPT ![p] =
               Finish(c, ListTypeMismatchError(c.ioc_type, l.list_type))]
     \/ /\ missing = {} /\ denied = {}
        /\ proc' = [proc EXCEPT ![p] = [c EXCEPT !.pc = "get_ioc", !.lists = found]]
  /\ UNCHANGED <<DB, files, ioc_id_seq, ncalls, fs_failed, excl_id_seq, users, clock, probe>>

\* lines 94-102 and 111: look the indicator up with its links
add_ioc_get_ioc(p) ==
  LET c == proc[p]
      rows == {r \in iocs : r.value = c.normalized_value}
  IN
  /\ c.op = "add_ioc" /\ c.pc = "get_ioc"
  /\ IF rows = {}
     THEN proc' = [proc EXCEPT ![p] = [c EXCEPT !.pc = "flush", !.is_new = TRUE]]
     ELSE \E ioc \in rows :
            proc' = [proc EXCEPT ![p] =
              [c EXCEPT !.pc = "commit", !.ioc_id = ioc.id,
                        !.existing_list_ids = LinkedListIds(ioc.id, list_iocs)]]
  /\ UNCHANGED <<DB, files, ioc_id_seq, ncalls, fs_failed, excl_id_seq, users, clock, probe>>

\* what the flush of a new indicator does to the committed table: nothing
FlushedRows_visible(rows, new) == rows \cup new
FlushedRows(rows, new) == rows

\* lines 103-107: INSERT the new indicator (db.flush) and log its creation;
\* a violation of the unique index raises IntegrityError, which nothing catches
add_ioc_flush(p) ==
  LET c == proc[p]
      id == ioc_id_seq + 1
      row == [id |-> id, value |-> c.normalized_value, type |-> c.ioc_type]
  IN
  /\ c.op = "add_ioc" /\ c.pc = "flush"
  /\ ~InsertWaits(p, c.normalized_value)
  /\ ioc_id_seq' = id
  /\ IF UniqueViolation(c.normalized_value, iocs)
     THEN /\ proc' = [proc EXCEPT ![p] = Finish(c, IntegrityError("ix_iocs_value"))]
          /\ iocs' = iocs
     ELSE /\ proc' = [proc EXCEPT ![p] =
               [c EXCEPT !.pc = "commit", !.ioc_id = id, !.new_iocs = {row},
                         !.new_audit = log_ioc_created(id, c.added_by)]]
          /\ iocs' = FlushedRows(iocs, {row})
  /\ UNCHANGED <<list_iocs, comments, audit, lists, exclusions, files, ncalls, fs_failed, excl_id_seq, users, clock, probe>>

\* lines 113-114: the target lists that get a new link
ListsToLink_all(c) == c.lists
ListsToLink(c) == {l \in c.lists : l.id \notin c.existing_list_ids}

\* lines 109-133: add the missing links and the comment to the session, commit,
\* refresh the indicator (which fails if its row is gone)
add_ioc_commit(p) ==
  LET c == proc[p]
      targets == ListsToLink(c)
      links == SetToBag({ListIOC(l.id, c.ioc_id, c.added_by) : l \in targets})
      logs == SetToBag({IOCAuditLog(c.ioc_id, "added_to_list", l.id, c.added_by) :
                          l \in targets})
      note == IF c.comment # None
              THEN SetToBag({IOCComment(c.ioc_id, c.comment, None)}) ELSE EmptyBag
  IN
  /\ c.op = "add_ioc" /\ c.pc = "commit"
  /\ IF LinkViolation(links, list_iocs)
     THEN /\ proc' = [proc EXCEPT ![p] = Finish(c, IntegrityError("uq_list_ioc"))]
          /\ UNCHANGED <<iocs, list_iocs, comments, audit>>
     ELSE IF ForeignKeyViolation(links (+) logs (+) note, iocs \cup c.new_iocs)
     THEN /\ proc' = [proc EXCEPT ![p] = Finish(c, IntegrityError("fk_ioc_id"))]
          /\ UNCHANGED <<iocs, list_iocs, comments, audit>>
     ELSE /\ iocs' = iocs \cup c.new_iocs
          /\ list_iocs' = list_iocs (+) links
          /\ audit' = audit (+) c.new_audit (+) logs
          /\ comments' = comments (+) note
          /\ proc' = [proc EXCEPT ![p] =
               IF c.ioc_id \notin {r.id : r \in iocs \cup c.new_iocs}
               THEN Finish(c, Raised("InvalidRequestError"))
               ELSE LET ioc == CHOOSE r \in iocs \cup c.new_iocs : r.id = c.ioc_id
                        d == ReturnedRow(c, ioc)
                    IN IF c.list_slugs = <<>> THEN Finish(d, Ok)
                       ELSE [d EXCEPT !.pc = "generate", !.regen = c.list_slugs,
                                      !.new_iocs = {}, !.new_audit = EmptyBag]]
  /\ UNCHANGED <<lists, exclusions, files, ioc_id_seq, ncalls, fs_failed, excl_id_seq, users, clock, probe>>

\* ------------------------------------- services/ioc_service.py bulk_add_iocs
bulk_add_iocs_call(p) ==
  /\ CanCall(p)
  /\ \E values \in BatchPool, list_slug \in BulkSlugs, comment \in CommentPool :
       proc' = [proc EXCEPT ![p] =
         [Idle EXCEPT !.op = "bulk_add_iocs", !.pc = "get_list", !.values = values,
                      !.list_slugs = <<list_slug>>, !.comment = comment,
                      !.added_by = Actor(p)]]
  /\ ncalls' = ncalls + 1
  /\ UNCHANGED <<DB, files, ioc_id_seq, fs_failed, excl_id_seq, users, clock, probe>>

\* lines 300-304: the list must exist
bulk_add_iocs_get_list(p) ==
  LET c == proc[p]
      rows == {l \in lists : l.slug = c.list_slugs[1]}
  IN
  /\ c.op = "bulk_add_iocs" /\ c.pc = "get_list"
  /\ IF rows = {}
     THEN proc' = [proc EXCEPT ![p] = Finish(c, ListNotFoundError({c.list_slugs[1]}))]
     ELSE \E lst \in rows :
            proc' = [proc EXCEPT ![p] =
              [c EXCEPT !.pc = "load_exclusions", !.lists = {lst}, !.before = Members(lst)]]
  /\ UNCHANGED <<DB, files, ioc_id_seq, ncalls, fs_failed, excl_id_seq, users, clock, probe>>

\* lines 306-310: the exclusion rows are loaded once
bulk_add_iocs_load_exclusions(p) ==
  LET c == proc[p] IN
  /\ c.op = "bulk_add_iocs" /\ c.pc = "load_exclusions"
  /\ proc' = [proc EXCEPT ![p] = [c EXCEPT !.pc = "value", !.loaded = exclusions, !.i = 1]]
  /\ UNCHANGED <<DB, files, ioc_id_seq, ncalls, fs_failed, excl_id_seq, users, clock, probe>>

\* the loop moves to the next value, or to the commit after the last one
NextValue(c) ==
  [c EXCEPT !.i = c.i + 1,
            !.pc = IF c.i = Len(c.values) THEN "commit"
                   ELSE IF c.op = "bulk_remove_iocs" THEN "remove" ELSE "value",
            !.is_new = FALSE, !.normalized_value = Empty, !.ioc_type = None]
Failed(c, value, reason) ==
  NextValue([c EXCEPT !.results.failed = Append(c.results.failed, <<value, reason>>)])
Skipped(c, value) ==
  NextValue([c EXCEPT !.results.skipped = Append(c.results.skipped, value)])

\* lines 349-359: link the indicator to the list, log, comment, report as added
Linked(c, ioc_id, value) ==
  LET lst == CHOOSE l \in c.lists : TRUE IN
  NextValue([c EXCEPT
    !.new_links = c.new_links (+) SetToBag({ListIOC(lst.id, ioc_id, c.added_by)}),
    !.new_audit = c.new_audit (+) log_ioc_added_to_list(ioc_id, lst.id, c.added_by),
    !.new_comments = c.new_comments (+)
       (IF c.comment # None THEN SetToBag({IOCComment(ioc_id, c.comment, "mcp")})
        ELSE EmptyBag),
    !.results.added = Append(c.results.added, value)])

\* lines 329-334 and 344: the list_iocs collection of an indicator as this
\* session holds it. selectinload fills the collection the first time the
\* session loads it and leaves a collection that is already loaded as it is,
\* so the links this session added since are not in it.
LoadedListIds(c, ioc_id) ==
  IF \E s \in c.seen : s.ioc_id = ioc_id
  THEN (CHOOSE s \in c.seen : s.ioc_id = ioc_id).list_ids
  ELSE LinkedListIds(ioc_id, list_iocs (+) c.new_links)
Loaded(c, ioc_id) ==
  [c EXCEPT !.seen = c.seen \cup {[ioc_id |-> ioc_id, list_ids |-> LoadedListIds(c, ioc_id)]}]

\* lines 312-347: one value of the batch, up to the lookup of its indicator
\* (the session sees its own flushed rows beside the committed ones)
bulk_add_iocs_value(p) ==
  LET c == proc[p]
      value == c.values[c.i]
      v == validate_ioc(value)
      lst == CHOOSE l \in c.lists : TRUE
      rows == {r \in iocs \cup c.new_iocs : r.value = v.value}
  IN
  /\ c.op = "bulk_add_iocs" /\ c.pc = "value"
  /\ IF ~v.ok THEN proc' = [proc EXCEPT ![p] = Failed(c, value, "ValidationError")]
     ELSE IF ~is_ioc_type_allowed(v.type, lst.list_type)
     THEN proc' = [proc EXCEPT ![p] = Failed(c, value, "Type not allowed")]
     ELSE \E match \in check_exclusions(v.value, v.type, c.loaded) :
       IF match.res = "TypeError"
       THEN proc' = [proc EXCEPT ![p] = Finish(c, Raised("TypeError"))]
       ELSE IF match.res = "match"
       THEN proc' = [proc EXCEPT ![p] = Failed(c, value, match.reason)]
       ELSE IF rows = {}
       THEN proc' = [proc EXCEPT ![p] =
              [c EXCEPT !.pc = "flush", !.is_new = TRUE, !.normalized_value = v.value,
                        !.ioc_type = v.type]]
       ELSE \E ioc \in rows :
              proc' = [proc EXCEPT ![p] =
                IF lst.id \in LoadedListIds(c, ioc.id)
                THEN Skipped(Loaded(c, ioc.id), v.value)
                ELSE Linked(Loaded(c, ioc.id), ioc.id, v.value)]
  /\ UNCHANGED <<DB, files, ioc_id_seq, ncalls, fs_failed, excl_id_seq, users, clock, probe>>

\* lines 336-341: INSERT the new indicator of this value; IntegrityError is
\* not a ValidationError and ends the whole batch
bulk_add_iocs_flush(p) ==
  LET c == proc[p]
      id == ioc_id_seq + 1
      row == [id |-> id, value |-> c.normalized_value, type |-> c.ioc_type]
  IN
  /\ c.op = "bulk_add_iocs" /\ c.pc = "flush"
  /\ ~InsertWaits(p, c.normalized_value)
  /\ ioc_id_seq' = id
  /\ proc' = [proc EXCEPT ![p] =
       IF UniqueViolation(c.normalized_value, iocs)
       THEN Finish(c, IntegrityError("ix_iocs_value"))
       ELSE Linked([c EXCEPT !.new_iocs = c.new_iocs \cup {row},
                             !.new_audit = c.new_audit (+) log_ioc_created(id, c.added_by)],
                   id, c.normalized_value)]
  /\ UNCHANGED <<DB, files, ncalls, fs_failed, excl_id_seq, users, clock, probe>>

\* lines 364-367: one commit for the whole batch
bulk_add_iocs_commit(p) ==
  LET c == proc[p] IN
  /\ c.op = "bulk_add_iocs" /\ c.pc = "commit"
  /\ IF LinkViolation(c.new_links, list_iocs)
     THEN /\ proc' = [proc EXCEPT ![p] = Finish(c, IntegrityError("uq_list_ioc"))]
          /\ UNCHANGED <<iocs, list_iocs, comments, audit>>
     ELSE IF ForeignKeyViolation(c.new_links (+) c.new_audit (+) c.new_comments,
                                 iocs \cup c.new_iocs)
     THEN /\ proc' = [proc EXCEPT ![p] = Finish(c, IntegrityError("fk_ioc_id"))]
          /\ UNCHANGED <<iocs, list_iocs, comments, audit>>
     ELSE /\ iocs' = iocs \cup c.new_iocs
          /\ list_iocs' = list_iocs (+) c.new_links
          /\ audit' = audit (+) c.new_audit
          /\ comments' = comments (+) c.new_comments
          /\ proc' = [proc EXCEPT ![p] =
               [c EXCEPT !.pc = "generate", !.regen = c.list_slugs, !.new_iocs = {},
                         !.new_links = EmptyBag, !.new_audit = EmptyBag,
                         !.new_comments = EmptyBag, !.loaded = {}, !.seen = {}]]
  /\ UNCHANGED <<lists, exclusions, files, ioc_id_seq, ncalls, fs_failed, excl_id_seq, users, clock, probe>>

\* ---------------------------------- services/ioc_service.py bulk_remove_iocs
\* the callers' batches to remove and the two ways to say where from
RemovePool == {b \in {<<V_PUBLIC>>, <<V_DOMAIN, V_PUBLIC>>} : Len(b) <= MaxBatch}
RemoveModes ==
  { [list_slug |-> "y", all_lists |-> FALSE], [list_slug |-> None, all_lists |-> TRUE] }

bulk_remove_iocs_start(p, batches) ==
  /\ CanCall(p)
  /\ \E values \in batches, mode \in RemoveModes :
       proc' = [proc EXCEPT ![p] =
         [Idle EXCEPT !.op = "bulk_remove_iocs", !.pc = "remove", !.values = values,
                      !.list_slugs = IF mode.list_slug = None THEN <<>>
                                     ELSE <<mode.list_slug>>,
                      !.all_lists = mode.all_lists, !.i = 1]]
  /\ ncalls' = ncalls + 1
  /\ UNCHANGED <<DB, files, ioc_id_seq, fs_failed, excl_id_seq, users, clock, probe>>

bulk_remove_iocs_call(p) == bulk_remove_iocs_start(p, RemovePool)

NotFound(c, value) ==
  NextValue([c EXCEPT !.results.not_found = Append(c.results.not_found, value)])
Removed(c, value) ==
  NextValue([c EXCEPT !.results.removed = Append(c.results.removed, value)])

\* lines 387-421: one value of the batch. The session sees the committed rows
\* less its own deletes; the link collection of an indicator is loaded once.
bulk_remove_iocs_value(p) ==
  LET c == proc[p]
      value == c.values[c.i]
      normalized == lower(strip(value))
      rows == {r \in iocs : r.value = normalized /\ r.id \notin c.del_iocs}
  IN
  /\ c.op = "bulk_remove_iocs" /\ c.pc = "remove"
  /\ IF rows = {} THEN proc' = [proc EXCEPT ![p] = NotFound(c, value)]
     ELSE \E ioc \in rows :
       LET linked == {l \in lists : l.id \in LoadedListIds(c, ioc.id)}
           d == Loaded(c, ioc.id)
       IN
       IF c.all_lists
       THEN proc' = [proc EXCEPT ![p] =
              Removed([d EXCEPT !.del_iocs = c.del_iocs \cup {ioc.id},
                                !.affected_slugs =
                                   c.affected_slugs \cup {l.slug : l \in linked}],
                      value)]
       ELSE IF \E l \in linked : l.slug = c.list_slugs[1]
       THEN LET l == CHOOSE x \in linked : x.slug = c.list_slugs[1] IN
            proc' = [proc EXCEPT ![p] =
              Removed([d EXCEPT
                 !.del_links = c.del_links \cup {[list_id |-> l.id, ioc_id |-> ioc.id]},
                 !.new_audit = c.new_audit (+) log_ioc_removed_from_list(ioc.id, l.id),
                 !.affected_slugs = c.affected_slugs \cup {l.slug}],
                      value)]
       ELSE proc' = [proc EXCEPT ![p] = NotFound(d, value)]
  /\ UNCHANGED <<DB, files, ioc_id_seq, ncalls, fs_failed, excl_id_seq, users, clock, probe>>

\* lines 422-428: one commit for the whole batch, then the affected feeds
bulk_remove_iocs_commit(p) ==
  LET c == proc[p]
      left == {r \in iocs : r.id \notin c.del_iocs}
  IN
  /\ c.op = "bulk_remove_iocs" /\ c.pc = "commit"
  /\ IF ForeignKeyViolation(c.new_audit, left)
     THEN /\ proc' = [proc EXCEPT ![p] = Finish(c, IntegrityError("fk_ioc_id"))]
          /\ UNCHANGED <<iocs, list_iocs, comments, audit>>
     ELSE /\ iocs' = left
          /\ list_iocs' = DeleteLinks(list_iocs, c.del_iocs, c.del_links)
          /\ audit' = DeleteFrom(audit, c.del_iocs) (+) c.new_audit
          /\ comments' = DeleteFrom(comments, c.del_iocs)
          /\ \E order \in Orders(c.affected_slugs) :
               proc' = [proc EXCEPT ![p] =
                 IF order = <<>> THEN Finish(c, Ok)
                 ELSE [c EXCEPT !.pc = "generate", !.regen = order, !.del_iocs = {},
                                !.del_links = {}, !.new_audit = EmptyBag, !.seen = {},
                                !.affected_slugs = {}]]
  /\ UNCHANGED <<lists, exclusions, files, ioc_id_seq, ncalls, fs_failed, excl_id_seq, users, clock, probe>>

\* ------------------------------ services/ioc_service.py remove_ioc_from_list
\* the indicator ids the callers send
IocIds == {1, 2}
UnlinkSlugs == {"x", "y"}

remove_ioc_from_list_call(p) ==
  /\ CanCall(p)
  /\ \E ioc_id \in IocIds, list_slug \in UnlinkSlugs :
       proc' = [proc EXCEPT ![p] =
         [Idle EXCEPT !.op = "remove_ioc_from_list", !.pc = "get_link",
                      !.ioc_id = ioc_id, !.list_slugs = <<list_slug>>]]
  /\ ncalls' = ncalls + 1
  /\ UNCHANGED <<DB, files, ioc_id_seq, fs_failed, excl_id_seq, users, clock, probe>>

\* lines 148-159: look the link up by indicator id and list slug; when there
\* is one, log the removal and mark the link for deletion
remove_ioc_from_list_get(p) ==
  LET c == proc[p]
      list_slug == c.list_slugs[1]
      rows == {l \in BagToSet(list_iocs) :
                 /\ l.ioc_id = c.ioc_id
                 /\ \E x \in lists : x.id = l.list_id /\ x.slug = list_slug}
  IN
  /\ c.pc = "get_link"
  /\ IF rows = {} THEN proc' = [proc EXCEPT ![p] = Finish(Returned(c, "False"), Ok)]
     ELSE \E list_ioc \in rows :
            proc' = [proc EXCEPT ![p] =
              [c EXCEPT !.pc = "delete_link",
                        !.del_links = {[list_id |-> list_ioc.list_id, ioc_id |-> c.ioc_id]},
                        !.new_audit = log_ioc_removed_from_list(c.ioc_id, list_ioc.list_id)]]
  /\ UNCHANGED <<DB, files, ioc_id_seq, ncalls, fs_failed, excl_id_seq, users, clock, probe>>

\* what the deletion of a link does to the table of indicators: nothing
AfterUnlink_drop_orphan(rows, links, ioc_id) ==
  {r \in rows : r.id # ioc_id \/ LinkedListIds(r.id, links) # {}}
AfterUnlink(rows, links, ioc_id) == rows

\* lines 160-163: DELETE the link, INSERT the audit entry, commit, then the feed
remove_ioc_from_list_commit(p) ==
  LET c == proc[p]
      links == DeleteLinks(list_iocs, {}, c.del_links)
  IN
  /\ c.pc = "delete_link"
  /\ IF ForeignKeyViolation(c.new_audit, iocs)
     THEN /\ proc' = [proc EXCEPT ![p] = Finish(c, IntegrityError("fk_ioc_id"))]
          /\ UNCHANGED <<iocs, list_iocs, audit>>
     ELSE /\ list_iocs' = links
          /\ audit' = audit (+) c.new_audit
          /\ iocs' = AfterUnlink(iocs, links, c.ioc_id)
          /\ proc' = [proc EXCEPT ![p] =
               [Returned(c, "True") EXCEPT !.pc = "generate", !.regen = c.list_slugs,
                                         !.del_links = {}, !.new_audit = EmptyBag,
                                         !.seen = {}]]
  /\ UNCHANGED <<comments, lists, exclusions, files, ioc_id_seq, ncalls, fs_failed,
                 excl_id_seq, users, clock, probe>>

\* --------------------------------------- services/ioc_service.py delete_ioc
delete_ioc_call(p) ==
  /\ CanCall(p)
  /\ \E ioc_id \in IocIds :
       proc' = [proc EXCEPT ![p] =
         [Idle EXCEPT !.op = "delete_ioc", !.pc = "get_ioc_by_id", !.ioc_id = ioc_id]]
  /\ ncalls' = ncalls + 1
  /\ UNCHANGED <<DB, files, ioc_id_seq, fs_failed, excl_id_seq, users, clock, probe>>

\* lines 169-182: load the indicator with its links, note the slugs of its
\* lists and mark it for deletion
delete_ioc_get(p) ==
  LET c == proc[p]
      rows == {r \in iocs : r.id = c.ioc_id}
      linked == {l \in lists : l.id \in LoadedListIds(c, c.ioc_id)}
  IN
  /\ c.pc = "get_ioc_by_id"
  /\ proc' = [proc EXCEPT ![p] =
       IF rows = {} THEN Finish(Returned(c, "False"), Ok)
       ELSE [Loaded(c, c.ioc_id) EXCEPT !.pc = "delete", !.del_iocs = {c.ioc_id},
                                        !.affected_slugs = {l.slug : l \in linked}]]
  /\ UNCHANGED <<DB, files, ioc_id_seq, ncalls, fs_failed, excl_id_seq, users, clock, probe>>

\* the rows of B that go with the indicators ioc_ids when those are deleted
Cascade_keep(B, ioc_ids) == B
Cascade(B, ioc_ids) == DeleteFrom(B, ioc_ids)

\* lines 182-190: DELETE the indicator with the rows that hang on it, commit,
\* then the feeds of the lists it was on
delete_ioc_commit(p) ==
  LET c == proc[p] IN
  /\ c.pc = "delete"
  /\ iocs' = {r \in iocs : r.id \notin c.del_iocs}
  /\ list_iocs' = Cascade(list_iocs, c.del_iocs)
  /\ comments' = Cascade(comments, c.del_iocs)
  /\ audit' = Cascade(audit, c.del_iocs)
  /\ \E order \in Orders(c.affected_slugs) :
       proc' = [proc EXCEPT ![p] =
         IF order = <<>> THEN Finish(Returned(c, "True"), Ok)
         ELSE [Returned(c, "True") EXCEPT !.pc = "generate", !.regen = order,
                                        !.del_iocs = {}, !.seen = {},
                                        !.affected_slugs = {}]]
  /\ UNCHANGED <<lists, exclusions, files, ioc_id_seq, ncalls, fs_failed, excl_id_seq,
                 users, clock, probe>>

\* ------------------------------------------------- mcp/tools.py unblock_ioc
LookupPool == {V_PUBLIC, V_DOMAIN}

unblock_ioc_start(p, values) ==
  /\ CanCall(p)
  /\ \E value \in values, mode \in RemoveModes \cup {[list_slug |-> None, all_lists |-> FALSE]} :
       proc' = [proc EXCEPT ![p] =
         [Idle EXCEPT !.op = "unblock_ioc", !.pc = "find", !.value = value,
                      !.list_slugs = IF mode.list_slug = None THEN <<>>
                                     ELSE <<mode.list_slug>>,
                      !.all_lists = mode.all_lists]]
  /\ ncalls' = ncalls + 1
  /\ UNCHANGED <<DB, files, ioc_id_seq, fs_failed, excl_id_seq, users, clock, probe>>

unblock_ioc_call(p) == unblock_ioc_start(p, LookupPool)

\* lines 389-423: look the indicator up by value.strip().lower() and hand it
\* to delete_ioc or to remove_ioc_from_list, in the same session
unblock_ioc_find(p) ==
  LET c == proc[p]
      rows == {r \in iocs : r.value = lower(strip(c.value))}
  IN
  /\ c.pc = "find"
  /\ IF rows = {} THEN proc' = [proc EXCEPT ![p] = Finish(Returned(c, "False"), Ok)]
     ELSE \E ioc \in rows :
            proc' = [proc EXCEPT ![p] =
              IF c.all_lists
              THEN [Loaded(c, ioc.id) EXCEPT !.pc = "get_ioc_by_id", !.ioc_id = ioc.id]
              ELSE IF c.list_slugs # <<>>
              THEN [Loaded(c, ioc.id) EXCEPT !.pc = "get_link", !.ioc_id = ioc.id]
              ELSE Finish(Returned(c, "False"), Ok)]
  /\ UNCHANGED <<DB, files, ioc_id_seq, ncalls, fs_failed, excl_id_seq, users, clock, probe>>

\* ---------------------------------- services/ioc_service.py add_ioc_comment
add_ioc_comment_start(p, values) ==
  /\ CanCall(p)
  /\ \E value \in values :
       proc' = [proc EXCEPT ![p] =
         [Idle EXCEPT !.op = "add_ioc_comment", !.pc = "get_for_comment",
                      !.value = value, !.comment = "note"]]
  /\ ncalls' = ncalls + 1
  /\ UNCHANGED <<DB, files, ioc_id_seq, fs_failed, excl_id_seq, users, clock, probe>>

add_ioc_comment_call(p) == add_ioc_comment_start(p, LookupPool)

\* lines 270-274: look the indicator up by value.strip().lower()
add_ioc_comment_get(p) ==
  LET c == proc[p]
      rows == {r \in iocs : r.value = lower(strip(c.value))}
  IN
  /\ c.pc = "get_for_comment"
  /\ IF rows = {} THEN proc' = [proc EXCEPT ![p] = Finish(Returned(c, "False"), Ok)]
     ELSE \E ioc \in rows :
            proc' = [proc EXCEPT ![p] =
              [c EXCEPT !.pc = "insert_comment", !.ioc_id = ioc.id,
                        !.new_comments = SetToBag({IOCComment(ioc.id, c.comment, "mcp")})]]
  /\ UNCHANGED <<DB, files, ioc_id_seq, ncalls, fs_failed, excl_id_seq, users, clock, probe>>

\* lines 276-283: INSERT the comment and commit
add_ioc_comment_commit(p) ==
  LET c == proc[p] IN
  /\ c.pc = "insert_comment"
  /\ IF ForeignKeyViolation(c.new_comments, iocs)
     THEN /\ proc' = [proc EXCEPT ![p] = Finish(c, IntegrityError("fk_ioc_id"))]
          /\ comments' = comments
     ELSE /\ comments' = comments (+) c.new_comments
          /\ proc' = [proc EXCEPT ![p] = Finish(Returned(c, "True"), Ok)]
  /\ UNCHANGED <<iocs, list_iocs, audit, lists, exclusions, files, ioc_id_seq, ncalls,
                 fs_failed, excl_id_seq, users, clock, probe>>

\* -------------------------------- services/exclusion_service.py add_exclusion
\* the patterns an administrator sends: a range and a wildcard that cover
\* values of RawPool, a seeded rule over again, and text that is no pattern
X_NET == Net(4, 128, 4)
X_WILD == Upper(Wild(<<"com">>))
ExclusionPool == {X_NET, X_WILD, Net(4, 160, 4), Junk}

Exclusion(id, value, type, reason) ==
  [id |-> id, value |-> value, type |-> type, reason |-> reason, is_builtin |-> FALSE]

\* lines 167-171: strip the value and determine the type of the pattern
add_exclusion_call(p) ==
  /\ CanCall(p)
  /\ \E value \in ExclusionPool, purge_conflicts \in BOOLEAN :
       LET c == [Idle EXCEPT !.op = "add_exclusion", !.value = value,
                             !.purge_conflicts = purge_conflicts]
           excl_type == detect_exclusion_type(strip(value))
       IN proc' = [proc EXCEPT ![p] =
            IF excl_type = None THEN Finish(c, Raised("ValidationError"))
            ELSE [c EXCEPT !.pc = "duplicate", !.excl_type = excl_type,
                           !.normalized_value = lower(strip(value))]]
  /\ ncalls' = ncalls + 1
  /\ UNCHANGED <<DB, files, ioc_id_seq, fs_failed, excl_id_seq, users, clock, probe>>

\* lines 173-178: a rule of the same value must not exist
add_exclusion_duplicate(p) ==
  LET c == proc[p] IN
  /\ c.op = "add_exclusion" /\ c.pc = "duplicate"
  /\ proc' = [proc EXCEPT ![p] =
       IF \E e \in exclusions : e.value = c.normalized_value
       THEN Finish(c, Raised("DuplicateExclusionError"))
       ELSE [c EXCEPT !.pc = IF c.purge_conflicts THEN "preview" ELSE "commit"]]
  /\ UNCHANGED <<DB, files, ioc_id_seq, ncalls, fs_failed, excl_id_seq, users, clock, probe>>

\* line 181 (preview_exclusion_conflicts, lines 43-70): load every indicator
\* with its links and keep the values the new rule matches
add_exclusion_preview(p) ==
  LET c == proc[p]
      res(r) == _ioc_matches_exclusion(r.value, r.type, strip(c.value), c.excl_type)
      conflicts == {r.value : r \in {x \in iocs : res(x) = "True"}}
      loaded == {[ioc_id |-> r.id, list_ids |-> LinkedListIds(r.id, list_iocs)] :
                   r \in iocs}
  IN
  /\ c.op = "add_exclusion" /\ c.pc = "preview"
  /\ proc' = [proc EXCEPT ![p] =
       IF \E r \in iocs : res(r) = "TypeError" THEN Finish(c, Raised("TypeError"))
       ELSE [c EXCEPT !.pc = IF conflicts = {} THEN "commit" ELSE "purge",
                      !.conflicts = conflicts, !.seen = loaded]]
  /\ UNCHANGED <<DB, files, ioc_id_seq, ncalls, fs_failed, excl_id_seq, users, clock, probe>>

\* lines 196-208: look one conflicting indicator up again and delete it
add_exclusion_purge(p) ==
  LET c == proc[p] IN
  /\ c.op = "add_exclusion" /\ c.pc = "purge"
  /\ \E value \in c.conflicts :
       LET rows == {r \in iocs : r.value = value /\ r.id \notin c.del_iocs}
           rest == [c EXCEPT !.conflicts = c.conflicts \ {value},
                             !.pc = IF c.conflicts = {value} THEN "commit" ELSE "purge"]
       IN IF rows = {} THEN proc' = [proc EXCEPT ![p] = rest]
          ELSE \E ioc \in rows :
            LET linked == {l \in lists : l.id \in LoadedListIds(c, ioc.id)} IN
            proc' = [proc EXCEPT ![p] =
              [Loaded(rest, ioc.id) EXCEPT
                 !.del_iocs = c.del_iocs \cup {ioc.id},
                 !.affected_slugs = c.affected_slugs \cup {l.slug : l \in linked},
                 !.results.purged = c.results.purged \cup {value}]]
  /\ UNCHANGED <<DB, files, ioc_id_seq, ncalls, fs_failed, excl_id_seq, users, clock, probe>>

\* lines 183-216: INSERT the rule, DELETE the purged indicators, commit, and
\* regenerate the feeds of the lists the purged indicators were on
add_exclusion_commit(p) ==
  LET c == proc[p]
      id == excl_id_seq + 1
      row == Exclusion(id, c.normalized_value, c.excl_type, "added by hand")
  IN
  /\ c.op = "add_exclusion" /\ c.pc = "commit"
  /\ excl_id_seq' = id
  /\ IF \E e \in exclusions : e.value = row.value
     THEN /\ proc' = [proc EXCEPT ![p] = Finish(c, IntegrityError("exclusions_value_key"))]
          /\ UNCHANGED <<iocs, list_iocs, comments, audit, exclusions>>
     ELSE /\ exclusions' = exclusions \cup {row}
          /\ iocs' = {r \in iocs : r.id \notin c.del_iocs}
          /\ list_iocs' = DeleteLinks(list_iocs, c.del_iocs, {})
          /\ audit' = DeleteFrom(audit, c.del_iocs)
          /\ comments' = DeleteFrom(comments, c.del_iocs)
          /\ \E order \in Orders(c.affected_slugs) :
               proc' = [proc EXCEPT ![p] =
                 IF order = <<>> THEN Finish(c, Ok)
                 ELSE [c EXCEPT !.pc = "generate", !.regen = order, !.del_iocs = {},
                                !.seen = {}, !.affected_slugs = {}]]
  /\ UNCHANGED <<lists, files, ioc_id_seq, ncalls, fs_failed, users, clock, probe>>

\* ------------------------------ services/exclusion_service.py remove_exclusion
\* the patterns asked to be removed: a seeded rule in capitals, the rule the
\* administrator added, a rule add_exclusion may have added
RemoveExclusionPool == {Upper(Name(<<"com">>)), Net(6, 32, 4), X_NET}

remove_exclusion_call(p) ==
  /\ CanCall(p)
  /\ \E value \in RemoveExclusionPool :
       proc' = [proc EXCEPT ![p] =
         [Idle EXCEPT !.op = "remove_exclusion", !.pc = "get_exclusion", !.value = value]]
  /\ ncalls' = ncalls + 1
  /\ UNCHANGED <<DB, files, ioc_id_seq, fs_failed, excl_id_seq, users, clock, probe>>

\* exclusion.is_builtin: the rule is a seeded one and must stay
IsBuiltin_never(exclusion) == FALSE
IsBuiltin(exclusion) == exclusion.is_builtin

\* lines 231-240: look the rule up by value.strip().lower(); a built-in rule
\* raises BuiltinExclusionError
remove_exclusion_get(p) ==
  LET c == proc[p]
      rows == {e \in exclusions : e.value = lower(strip(c.value))}
  IN
  /\ c.pc = "get_exclusion"
  /\ IF rows = {} THEN proc' = [proc EXCEPT ![p] = Finish(Returned(c, "False"), Ok)]
     ELSE \E exclusion \in rows :
            proc' = [proc EXCEPT ![p] =
              IF IsBuiltin(exclusion) THEN Finish(c, Raised("BuiltinExclusionError"))
              ELSE [c EXCEPT !.pc = "delete_exclusion", !.excl_id = exclusion.id]]
  /\ UNCHANGED <<DB, files, ioc_id_seq, ncalls, fs_failed, excl_id_seq, users, clock, probe>>

\* lines 242-244 (and api/settings.py 329-330): DELETE the rule and commit
remove_exclusion_commit(p) ==
  LET c == proc[p] IN
  /\ c.pc = "delete_exclusion"
  /\ exclusions' = {e \in exclusions : e.id # c.excl_id}
  /\ proc' = [proc EXCEPT ![p] = Finish(Returned(c, "True"), Ok)]
  /\ UNCHANGED <<iocs, list_iocs, comments, audit, lists, files, ioc_id_seq, ncalls,
                 fs_failed, excl_id_seq, users, clock, probe>>

\* ------------------------------------------ api/settings.py create_exclusion
\* the bodies posted: a wildcard in capitals, a seeded value over again, a
\* starred pattern under another type, a wildcard type without a star, a
\* type that does not exist
CreateExclusionPool ==
  { [value |-> Pad(X_WILD), type |-> "wildcard"],
    [value |-> Name(<<"com">>), type |-> "domain"],
    [value |-> X_WILD, type |-> "domain"],
    [value |-> Name(<<"bad", "com">>), type |-> "wildcard"],
    [value |-> X_NET, type |-> "range"] }

\* "*" in value
HasStar(s) == s.t = "name" /\ s.star

\* lines 272-294: the checks on the body
create_exclusion_call(p) ==
  /\ CanCall(p)
  /\ \E data \in CreateExclusionPool :
       LET value == strip(data.value)
           c == [Idle EXCEPT !.op = "create_exclusion", !.value = data.value,
                             !.excl_type = data.type]
       IN proc' = [proc EXCEPT ![p] =
            IF data.type \notin {"ip", "domain", "cidr", "wildcard"}
            THEN Finish(c, HTTPException(400, "Invalid type"))
            ELSE IF value.t = "empty"
            THEN Finish(c, HTTPException(400, "Value cannot be empty"))
            ELSE IF HasStar(value) /\ data.type # "wildcard"
            THEN Finish(c, HTTPException(400, "Wildcard patterns must use 'wildcard' type"))
            ELSE IF data.type = "wildcard" /\ ~StartsWithStarDot(value)
            THEN Finish(c, HTTPException(400, "Wildcard exclusions must start with '*.'"))
            ELSE [c EXCEPT !.pc = "find_duplicate", !.normalized_value = value]]
  /\ ncalls' = ncalls + 1
  /\ UNCHANGED <<DB, files, ioc_id_seq, fs_failed, excl_id_seq, users, clock, probe>>

\* lines 296-299: a rule of the same value must not exist
create_exclusion_duplicate(p) ==
  LET c == proc[p] IN
  /\ c.pc = "find_duplicate"
  /\ proc' = [proc EXCEPT ![p] =
       IF \E e \in exclusions : e.value = c.normalized_value
       THEN Finish(c, HTTPException(409, "Exclusion already exists"))
       ELSE [c EXCEPT !.pc = "insert_exclusion"]]
  /\ UNCHANGED <<DB, files, ioc_id_seq, ncalls, fs_failed, excl_id_seq, users, clock, probe>>

\* lines 301-310: INSERT the rule as a user rule and commit
create_exclusion_commit(p) ==
  LET c == proc[p]
      id == excl_id_seq + 1
      row == Exclusion(id, c.normalized_value, c.excl_type, "added by hand")
  IN
  /\ c.pc = "insert_exclusion"
  /\ excl_id_seq' = id
  /\ IF \E e \in exclusions : e.value = row.value
     THEN /\ proc' = [proc EXCEPT ![p] = Finish(c, IntegrityError("exclusions_value_key"))]
          /\ exclusions' = exclusions
     ELSE /\ exclusions' = exclusions \cup {row}
          /\ proc' = [proc EXCEPT ![p] = Finish([c EXCEPT !.excl_id = id], Ok)]
  /\ UNCHANGED <<iocs, list_iocs, comments, audit, lists, files, ioc_id_seq, ncalls,
                 fs_failed, users, clock, probe>>

\* ------------------------------------------ api/settings.py delete_exclusion
\* the rule ids in the path: a seeded rule, the administrator's rule, a rule
\* added since
ExclusionIds == {1, LastExclusionId, LastExclusionId + 1}

delete_exclusion_call(p) ==
  /\ CanCall(p)
  /\ \E exclusion_id \in ExclusionIds :
       proc' = [proc EXCEPT ![p] =
         [Idle EXCEPT !.op = "delete_exclusion", !.pc = "get_exclusion_by_id",
                      !.excl_id = exclusion_id]]
  /\ ncalls' = ncalls + 1
  /\ UNCHANGED <<DB, files, ioc_id_seq, fs_failed, excl_id_seq, users, clock, probe>>

\* lines 320-327: look the rule up by id; a built-in rule is refused
delete_exclusion_get(p) ==
  LET c == proc[p]
      rows == {e \in exclusions : e.id = c.excl_id}
  IN
  /\ c.pc = "get_exclusion_by_id"
  /\ IF rows = {}
     THEN proc' = [proc EXCEPT ![p] = Finish(c, HTTPException(404, "Exclusion not found"))]
     ELSE \E exclusion \in rows :
            proc' = [proc EXCEPT ![p] =
              IF IsBuiltin(exclusion)
              THEN Finish(c, HTTPException(400, "Cannot delete built-in exclusions"))
              ELSE [c EXCEPT !.pc = "delete_exclusion"]]
  /\ UNCHANGED <<DB, files, ioc_id_seq, ncalls, fs_failed, excl_id_seq, users, clock, probe>>

\* -------------------------------------------------- api/lists.py update_list
\* display names are sequences of characters; the ones sent here hold at most
\* one letter or digit, so that a slug is one character or empty
LowerChar(ch) ==
  CASE ch = "X" -> "x" [] ch = "Y" -> "y" [] ch = "Z" -> "z" [] OTHER -> ch
IsSlugChar(ch) == ch \in {"x", "y", "z", "w"}
\* models/list.py List.generate_slug: re.sub(r"[^a-z0-9]", "", name.lower())
generate_slug(name) ==
  LET kept == SelectSeq([i \in 1..Len(name) |-> LowerChar(name[i])], IsSlugChar)
  IN IF kept = <<>> THEN "" ELSE kept[1]
\* models/list.py validate_slug: ^[a-z0-9]+$
validate_slug(slug) == slug # ""

NamePool == {NoName, <<"Z", "!">>, <<"Y">>, <<"!">>}
ListTypePool == {None, "ip", "mixed"}

update_list_call(p) ==
  /\ CanCall(p)
  /\ \E slug \in UnlinkSlugs, name \in NamePool, list_type \in ListTypePool :
       /\ name # NoName \/ list_type # None
       /\ proc' = [proc EXCEPT ![p] =
            [Idle EXCEPT !.op = "update_list", !.pc = "load_list", !.list_slugs = <<slug>>,
                         !.name = name, !.list_type = list_type]]
  /\ ncalls' = ncalls + 1
  /\ UNCHANGED <<DB, files, ioc_id_seq, fs_failed, excl_id_seq, users, clock, probe>>

\* lines 148-153: the kinds of the members the new type does not allow
InvalidKinds_none(members, list_type) == {}
InvalidKinds(members, list_type) ==
  {r.type : r \in {x \in members : ~is_ioc_type_allowed(x.type, list_type)}}

\* lines 134-173: load the list with its members; a type change that would
\* leave a member disallowed is refused; a new name gives a new slug
update_list_load(p) ==
  LET c == proc[p]
      rows == {l \in lists : l.slug = c.list_slugs[1]}
  IN
  /\ c.pc = "load_list"
  /\ IF rows = {}
     THEN proc' = [proc EXCEPT ![p] = Finish(c, HTTPException(404, "List not found"))]
     ELSE \E list_obj \in rows :
       LET members == {r \in iocs : list_obj.id \in LinkedListIds(r.id, list_iocs)}
           invalid == IF c.list_type # None /\ c.list_type # list_obj.list_type
                      THEN InvalidKinds(members, c.list_type) ELSE {}
           new_slug == IF c.name = NoName THEN list_obj.slug
                       ELSE generate_slug(c.name)
           d == [c EXCEPT !.lists = {list_obj}, !.before = {r.value : r \in members}]
       IN proc' = [proc EXCEPT ![p] =
            IF invalid # {} THEN Finish(d, HTTPException(400, "Cannot change type"))
            ELSE IF new_slug # list_obj.slug
            THEN [d EXCEPT !.pc = "check_slug"]
            ELSE [d EXCEPT !.pc = "save_list"]]
  /\ UNCHANGED <<DB, files, ioc_id_seq, ncalls, fs_failed, excl_id_seq, users, clock, probe>>

\* lines 164-173: the new slug must not be taken and must be a slug
update_list_check_slug(p) ==
  LET c == proc[p]
      new_slug == generate_slug(c.name)
  IN
  /\ c.pc = "check_slug"
  /\ proc' = [proc EXCEPT ![p] =
       IF \E l \in lists : l.slug = new_slug
       THEN Finish(c, HTTPException(409, "List with slug already exists"))
       ELSE IF ~validate_slug(new_slug) THEN Finish(c, Raised("ValueError"))
       ELSE [c EXCEPT !.pc = "save_list"]]
  /\ UNCHANGED <<DB, files, ioc_id_seq, ncalls, fs_failed, excl_id_seq, users, clock, probe>>

\* UPDATE lists SET <the attributes that changed> WHERE id = <id>: the row as
\* the store holds it now, with the attributes of new that differ from loaded
Updated(current, loaded, new) ==
  [current EXCEPT
     !.name = IF new.name # loaded.name THEN new.name ELSE current.name,
     !.slug = IF new.slug # loaded.slug THEN new.slug ELSE current.slug,
     !.list_type = IF new.list_type # loaded.list_type THEN new.list_type
                   ELSE current.list_type]

\* the flush of a changed list row: StaleDataError when the row is gone,
\* IntegrityError when the slug is taken
FlushList(p, loaded, new, done) ==
  LET others == {l \in lists : l.id # loaded.id}
      current == lists \ others
  IN
  IF new = loaded
  THEN /\ lists' = lists
       /\ proc' = done
  ELSE IF current = {}
  THEN /\ lists' = lists
       /\ proc' = [proc EXCEPT ![p] = Finish(proc[p], Raised("StaleDataError"))]
  ELSE LET row == Updated(CHOOSE l \in current : TRUE, loaded, new) IN
       IF \E l \in others : l.slug = row.slug
       THEN /\ lists' = lists
            /\ proc' = [proc EXCEPT ![p] = Finish(proc[p], IntegrityError("ix_lists_slug"))]
       ELSE /\ lists' = others \cup {row}
            /\ proc' = done

\* lines 173-187: set the attributes that were sent and commit
update_list_commit(p) ==
  LET c == proc[p]
      list_obj == CHOOSE l \in c.lists : TRUE
      new == [list_obj EXCEPT
                !.name = IF c.name # NoName THEN c.name ELSE list_obj.name,
                !.slug = IF c.name # NoName THEN generate_slug(c.name) ELSE list_obj.slug,
                !.list_type = IF c.list_type # None THEN c.list_type
                              ELSE list_obj.list_type]
  IN
  /\ c.pc = "save_list"
  /\ FlushList(p, list_obj, new, [proc EXCEPT ![p] = Finish(c, Ok)])
  /\ UNCHANGED <<iocs, list_iocs, comments, audit, exclusions, files, ioc_id_seq, ncalls,
                 fs_failed, excl_id_seq, users, clock, probe>>

\* -------------------------------------------------- mcp/tools.py update_list
\* lines 716-748: the tool takes a name (description and tags are not part
\* of this model) and writes only what it was given
mcp_update_list_call(p) ==
  /\ CanCall(p)
  /\ \E slug \in UnlinkSlugs, name \in NamePool \ {NoName} :
       proc' = [proc EXCEPT ![p] =
         [Idle EXCEPT !.op = "mcp_update_list", !.pc = "mcp_load_list",
                      !.list_slugs = <<slug>>, !.name = name]]
  /\ ncalls' = ncalls + 1
  /\ UNCHANGED <<DB, files, ioc_id_seq, fs_failed, excl_id_seq, users, clock, probe>>

mcp_update_list_load(p) ==
  LET c == proc[p]
      rows == {l \in lists : l.slug = c.list_slugs[1]}
  IN
  /\ c.pc = "mcp_load_list"
  /\ IF rows = {} THEN proc' = [proc EXCEPT ![p] = Finish(Returned(c, "False"), Ok)]
     ELSE \E lst \in rows :
            proc' = [proc EXCEPT ![p] = [c EXCEPT !.pc = "mcp_save_list", !.lists = {lst}]]
  /\ UNCHANGED <<DB, files, ioc_id_seq, ncalls, fs_failed, excl_id_seq, users, clock, probe>>

mcp_update_list_commit(p) ==
  LET c == proc[p]
      lst == CHOOSE l \in c.lists : TRUE
  IN
  /\ c.pc = "mcp_save_list"
  /\ FlushList(p, lst, [lst EXCEPT !.name = c.name],
               [proc EXCEPT ![p] = Finish(Returned(c, "True"), Ok)])
  /\ UNCHANGED <<iocs, list_iocs, comments, audit, exclusions, files, ioc_id_seq, ncalls,
                 fs_failed, excl_id_seq, users, clock, probe>>

\* ------------------------------- services/edl_generator.py generate_edl_file
\* lines 15-27: read the list with its members (None if the list is gone)
generate_edl_file_read(p) ==
  LET c == proc[p]
      slug == Head(c.regen)
      rows == {l \in lists : l.slug = slug}
  IN
  /\ c.pc = "generate"
  /\ IF rows = {}
     THEN proc' = [proc EXCEPT ![p] =
            IF Tail(c.regen) = <<>> THEN Finish(c, Ok)
            ELSE [c EXCEPT !.regen = Tail(c.regen)]]
     ELSE \E l \in rows :
            proc' = [proc EXCEPT ![p] = [c EXCEPT !.pc = "write", !.lines = Members(l)]]
  /\ UNCHANGED <<DB, files, ioc_id_seq, ncalls, fs_failed, excl_id_seq, users, clock, probe>>

\* lines 27-37: sort and write the file
generate_edl_file_write(p) ==
  LET c == proc[p] IN
  /\ c.pc = "write"
  /\ files' = [files EXCEPT ![Head(c.regen)] = sorted(c.lines)]
  /\ proc' = [proc EXCEPT ![p] =
       IF Tail(c.regen) = <<>> THEN Finish(c, Ok)
       ELSE [c EXCEPT !.pc = "generate", !.regen = Tail(c.regen), !.lines = {}]]
  /\ UNCHANGED <<DB, ioc_id_seq, ncalls, fs_failed, excl_id_seq, users, clock, probe>>

\* what a failed write does to the committed indicators: nothing
AfterWriteError_rollback(rows, c) == {r \in rows : r.value # c.normalized_value}
AfterWriteError(rows, c) == rows

\* lines 30-37: mkdir or write_text raises OSError; the caller does not catch it
generate_edl_file_fail(p) ==
  LET c == proc[p] IN
  /\ c.pc = "write"
  /\ proc' = [proc EXCEPT ![p] = Finish(c, Raised("OSError"))]
  /\ fs_failed' = TRUE
  /\ iocs' = AfterWriteError(iocs, c)
  /\ UNCHANGED <<list_iocs, comments, audit, lists, exclusions, files, ioc_id_seq, ncalls, excl_id_seq, users, clock, probe>>

\* the client goes away while the call waits before its commit: the session is
\* closed and its transaction rolled back (db.py get_db)
abandon(p) ==
  LET c == proc[p] IN
  /\ c.pc \in {"check_exclusions", "get_lists", "get_ioc", "flush", "commit",
               "get_list", "load_exclusions", "value", "remove", "duplicate",
               "preview", "purge"}
  /\ proc' = [proc EXCEPT ![p] = Finish(c, Raised("abandoned"))]
  /\ UNCHANGED <<DB, files, ioc_id_seq, ncalls, fs_failed, excl_id_seq, users, clock, probe>>

\* ----------------------------------------------------- services/auth.py
MAX_FAILED_ATTEMPTS == 5
LOCKOUT_DURATION_MINUTES == 15
\* the clock moves in steps of five minutes
TickMinutes == 5

Usernames == {"admin", "ghost"}
Passwords == {"secret", "guess"}

\* passlib verify: the password is the one that was hashed
verify_password(plain_password, hashed_password) == plain_password = hashed_password

\* api/auth.py login, lines 26-31: the form arrives
login_call(p) ==
  /\ proc[p].pc \in {"idle", "done"} /\ ncalls < MaxLogins
  /\ \E username \in Usernames, password \in Passwords :
       proc' = [proc EXCEPT ![p] =
         [Idle EXCEPT !.op = "login", !.pc = "get_user", !.username = username,
                      !.password = password]]
  /\ ncalls' = ncalls + 1
  /\ UNCHANGED <<DB, files, ioc_id_seq, fs_failed, excl_id_seq, users, clock, probe>>

\* what login answers when authenticate_user_with_lockout raises
\* AccountLockedError (api/auth.py lines 32-39): the same 401 as for a wrong
\* password
LockedResponse(locked_until) == HTTPException(401, "Incorrect username or password")
\* lines 41-46
InvalidResponse == HTTPException(401, "Incorrect username or password")

\* lines 101-102, `user.locked_until and user.locked_until > now`: the column
\* (models/user.py line 22) is a DateTime without time zone, so a stored time
\* is read back naive, while now is datetime.now(timezone.utc), which is aware;
\* Python refuses to order the two and raises TypeError
LockedAt(locked_until, now) ==
  IF locked_until = NoTime THEN "False" ELSE "TypeError"

\* authenticate_user_with_lockout, lines 92-123: load the user, refuse while
\* locked, clear an expired lockout, verify the password and count a failure
login_get_user(p) ==
  LET c == proc[p]
      now == clock
  IN
  /\ c.pc = "get_user"
  /\ IF c.username \notin DOMAIN users
     THEN proc' = [proc EXCEPT ![p] = Finish(c, InvalidResponse)]
     ELSE LET user == users[c.username]
              cleared == IF user.locked_until # NoTime /\ user.locked_until <= now
                         THEN [user EXCEPT !.locked_until = NoTime, !.failed_attempts = 0]
                         ELSE user
              failed == cleared.failed_attempts + 1
          IN proc' = [proc EXCEPT ![p] =
               IF LockedAt(user.locked_until, now) = "TypeError"
               THEN Finish(c, Raised("TypeError"))
               ELSE IF LockedAt(user.locked_until, now) = "True"
               THEN Finish(c, LockedResponse(user.locked_until))
               ELSE IF verify_password(c.password, user.hashed_password)
               THEN [c EXCEPT !.pc = "save_user",
                              !.user = [loaded |-> user, ok |-> TRUE,
                                        new |-> [cleared EXCEPT !.failed_attempts = 0,
                                                                !.locked_until = NoTime]]]
               ELSE [c EXCEPT !.pc = "save_user",
                              !.user = [loaded |-> user, ok |-> FALSE,
                                        new |-> [cleared EXCEPT
                                          !.failed_attempts = failed,
                                          !.locked_until =
                                             IF failed >= MAX_FAILED_ATTEMPTS
                                             THEN now + LOCKOUT_DURATION_MINUTES
                                             ELSE cleared.locked_until]]]]
  /\ UNCHANGED <<DB, files, ioc_id_seq, ncalls, fs_failed, excl_id_seq, users, clock, probe>>

\* lines 115 and 125: UPDATE the attributes that changed and commit; login
\* answers with a token or with 401 (api/auth.py lines 41-49)
login_commit(p) ==
  LET c == proc[p]
      current == users[c.username]
      row == [current EXCEPT
                !.failed_attempts =
                   IF c.user.new.failed_attempts # c.user.loaded.failed_attempts
                   THEN c.user.new.failed_attempts ELSE current.failed_attempts,
                !.locked_until =
                   IF c.user.new.locked_until # c.user.loaded.locked_until
                   THEN c.user.new.locked_until ELSE current.locked_until]
  IN
  /\ c.pc = "save_user"
  /\ users' = [users EXCEPT ![c.username] = row]
  /\ proc' = [proc EXCEPT ![p] =
       IF c.user.ok THEN Finish(Returned(c, "access_token"), Ok)
       ELSE Finish(c, InvalidResponse)]
  /\ UNCHANGED <<DB, files, ioc_id_seq, ncalls, fs_failed, excl_id_seq, clock, probe>>

\* time passes
Tick ==
  /\ clock + TickMinutes <= MaxClock
  /\ clock' = clock + TickMinutes
  /\ UNCHANGED <<DB, files, ioc_id_seq, ncalls, fs_failed, excl_id_seq, users, proc, probe>>

Work(p) ==
  \/ add_ioc_check_exclusions(p)
  \/ add_ioc_get_lists(p)
  \/ add_ioc_get_ioc(p)
  \/ add_ioc_flush(p)
  \/ add_ioc_commit(p)
  \/ bulk_add_iocs_get_list(p)
  \/ bulk_add_iocs_load_exclusions(p)
  \/ bulk_add_iocs_value(p)
  \/ bulk_add_iocs_flush(p)
  \/ bulk_add_iocs_commit(p)
  \/ bulk_remove_iocs_value(p)
  \/ bulk_remove_iocs_commit(p)
  \/ remove_ioc_from_list_get(p)
  \/ remove_ioc_from_list_commit(p)
  \/ delete_ioc_get(p)
  \/ delete_ioc_commit(p)
  \/ unblock_ioc_find(p)
  \/ add_ioc_comment_get(p)
  \/ add_ioc_comment_commit(p)
  \/ add_exclusion_duplicate(p)
  \/ add_exclusion_preview(p)
  \/ add_exclusion_purge(p)
  \/ add_exclusion_commit(p)
  \/ remove_exclusion_get(p)
  \/ remove_exclusion_commit(p)
  \/ create_exclusion_duplicate(p)
  \/ create_exclusion_commit(p)
  \/ delete_exclusion_get(p)
  \/ update_list_load(p)
  \/ update_list_check_slug(p)
  \/ update_list_commit(p)
  \/ mcp_update_list_load(p)
  \/ mcp_update_list_commit(p)
  \/ generate_edl_file_read(p)
  \/ generate_edl_file_write(p)
  \/ generate_edl_file_fail(p)
  \/ abandon(p)

\* request handlers run concurrently, one step (one await) at a time
Next ==
  \E p \in Procs :
    \/ add_ioc_call(p)
    \/ bulk_add_iocs_call(p)
    \/ bulk_remove_iocs_call(p)
    \/ add_exclusion_call(p)
    \/ remove_ioc_from_list_call(p)
    \/ delete_ioc_call(p)
    \/ unblock_ioc_call(p)
    \/ add_ioc_comment_call(p)
    \/ remove_exclusion_call(p)
    \/ create_exclusion_call(p)
    \/ delete_exclusion_call(p)
    \/ update_list_call(p)
    \/ mcp_update_list_call(p)
    \/ Work(p)

Spec == Init /\ [][Next]_vars

\* the same calls made one after the other: a call starts when no other is open
Quiet == \A p \in Procs : proc[p].pc \in {"idle", "done"}
Alone(p) == \A q \in Procs \ {p} : proc[q].pc \in {"idle", "done"}
NextSeq ==
  \E p \in Procs :
    \/ Alone(p) /\ add_ioc_call(p)
    \/ Alone(p) /\ bulk_add_iocs_call(p)
    \/ Alone(p) /\ bulk_remove_iocs_call(p)
    \/ Alone(p) /\ add_exclusion_call(p)
    \/ Alone(p) /\ remove_ioc_from_list_call(p)
    \/ Alone(p) /\ delete_ioc_call(p)
    \/ Alone(p) /\ unblock_ioc_call(p)
    \/ Alone(p) /\ add_ioc_comment_call(p)
    \/ Alone(p) /\ remove_exclusion_call(p)
    \/ Alone(p) /\ create_exclusion_call(p)
    \/ Alone(p) /\ delete_exclusion_call(p)
    \/ Alone(p) /\ update_list_call(p)
    \/ Alone(p) /\ mcp_update_list_call(p)
    \/ Work(p)

SpecSeq == Init /\ [][NextSeq]_vars

\* the login endpoint on its own: concurrent attempts while time passes
NextAuth ==
  \/ \E p \in Procs : login_call(p) \/ login_get_user(p) \/ login_commit(p)
  \/ Tick

SpecAuth == Init /\ [][NextAuth]_vars

\* a fresh installation (only the seeded rules), calls made one after the
\* other, with values that spell the same indicators in different ways
SpellPool ==
  {Pad(Addr(4, 136)), Addr(4, 136), Upper(Name(<<"bad", "com">>)), Name(<<"bad", "com">>),
   Net(4, 136, 4), Net(4, 128, 4), Upper(Hex(32)), Hex(32)}

add_ioc_spelled(p) == add_ioc_start(p, SpellPool, {<<"y">>}, {None})
bulk_remove_iocs_spelled(p) == bulk_remove_iocs_start(p, {<<v>> : v \in SpellPool})
unblock_ioc_spelled(p) == unblock_ioc_start(p, SpellPool)
add_ioc_comment_spelled(p) == add_ioc_comment_start(p, SpellPool)

InitFresh == InitWith(SeededExclusions, NoProbe)
NextNorm ==
  \E p \in Procs :
    \/ Alone(p) /\ add_ioc_spelled(p)
    \/ Alone(p) /\ bulk_remove_iocs_spelled(p)
    \/ Alone(p) /\ unblock_ioc_spelled(p)
    \/ Alone(p) /\ add_ioc_comment_spelled(p)
    \/ add_ioc_check_exclusions(p)
    \/ add_ioc_get_lists(p)
    \/ add_ioc_get_ioc(p)
    \/ add_ioc_flush(p)
    \/ add_ioc_commit(p)
    \/ bulk_remove_iocs_value(p)
    \/ bulk_remove_iocs_commit(p)
    \/ unblock_ioc_find(p)
    \/ remove_ioc_from_list_get(p)
    \/ remove_ioc_from_list_commit(p)
    \/ delete_ioc_get(p)
    \/ delete_ioc_commit(p)
    \/ add_ioc_comment_get(p)
    \/ add_ioc_comment_commit(p)
    \/ generate_edl_file_read(p)
    \/ generate_edl_file_write(p)

SpecNorm == InitFresh /\ [][NextNorm]_vars

\* the two matchers on their own: an indicator as validate_ioc returns it and
\* a rule as the store holds it
MatchValues ==
  {Addr(4, 136), Addr(4, 165), Net(4, 160, 6), Net(4, 128, 2), Addr(6, 33), Net(6, 33, 6),
   Name(<<"bad", "com">>), Name(<<"mail", "bad", "com">>), Name(<<"notbad", "com">>),
   Wild(<<"bad", "com">>), Hex(32)}
MatchRules ==
  {Exclusion(1, Net(4, 160, 4), "cidr", None), Exclusion(2, Net(6, 32, 4), "cidr", None),
   Exclusion(3, Addr(4, 136), "ip", None), Exclusion(4, Upper(Addr(6, 33)), "ip", None),
   Exclusion(5, Name(<<"bad", "com">>), "domain", None),
   Exclusion(6, Name(<<"com">>), "domain", None),
   Exclusion(7, Wild(<<"com">>), "wildcard", None),
   Exclusion(8, Wild(<<"bad", "com">>), "wildcard", None),
   Exclusion(9, Upper(Wild(<<"bad", "com">>)), "wildcard", None),
   Exclusion(10, Net(4, 165, 4), "cidr", None)}
ProbeInputs ==
  {[op |-> "match", value |-> validate_ioc(v).value, ioc_type |-> validate_ioc(v).type,
    rule |-> e, preview |-> None, enforce |-> None] : v \in MatchValues, e \in MatchRules}

InitMatch == \E pr \in ProbeInputs : InitWith(SeededExclusions \cup UserExclusions, pr)

\* exclusion_service.py line 63: what preview_exclusion_conflicts asks of a
\* stored indicator and a proposed rule
preview_exclusion_conflicts_match ==
  /\ probe.op = "match" /\ probe.preview = None
  /\ probe' = [probe EXCEPT !.preview =
       _ioc_matches_exclusion(probe.value, probe.ioc_type, probe.rule.value,
                              probe.rule.type)]
  /\ UNCHANGED <<DB, files, ioc_id_seq, ncalls, fs_failed, excl_id_seq, users, clock, proc>>

\* validation.py lines 115-119: what check_exclusions asks of a value and a rule
check_exclusions_match ==
  /\ probe.op = "match" /\ probe.enforce = None
  /\ probe' = [probe EXCEPT !.enforce =
       _matches_exclusion(lower(probe.value), probe.ioc_type, probe.rule)]
  /\ UNCHANGED <<DB, files, ioc_id_seq, ncalls, fs_failed, excl_id_seq, users, clock, proc>>

NextMatch == preview_exclusion_conflicts_match \/ check_exclusions_match

SpecMatch == InitMatch /\ [][NextMatch]_vars

\* ------------------------------------------------ api/iocs.py add_ioc_to_list
\* the endpoint that puts a stored indicator on a list: the path holds the id
\* of the indicator and the slug of the list
add_ioc_to_list_call(p) ==
  /\ CanCall(p)
  /\ \E ioc_id \in IocIds, slug \in BulkSlugs :
       proc' = [proc EXCEPT ![p] =
         [Idle EXCEPT !.op = "add_ioc_to_list", !.pc = "link_get_ioc",
                      !.ioc_id = ioc_id, !.list_slugs = <<slug>>, !.added_by = "api"]]
  /\ ncalls' = ncalls + 1
  /\ UNCHANGED <<DB, files, ioc_id_seq, fs_failed, excl_id_seq, users, clock, probe>>

\* lines 206-211: load the indicator with its links, 404 when there is none
add_ioc_to_list_get_ioc(p) ==
  LET c == proc[p]
      rows == {r \in iocs : r.id = c.ioc_id}
  IN
  /\ c.pc = "link_get_ioc"
  /\ IF rows = {}
     THEN proc' = [proc EXCEPT ![p] = Finish(c, HTTPException(404, "IOC not found"))]
     ELSE \E ioc \in rows :
            proc' = [proc EXCEPT ![p] =
              [c EXCEPT !.pc = "link_get_list", !.normalized_value = ioc.value,
                        !.ioc_type = ioc.type,
                        !.existing_list_ids = LinkedListIds(ioc.id, list_iocs)]]
  /\ UNCHANGED <<DB, files, ioc_id_seq, ncalls, fs_failed, excl_id_seq, users, clock, probe>>

\* lines 213-231: load the list, check the type policy and the links loaded
\* with the indicator, add the link and its audit entry to the session. The
\* exclusion rules are not read.
add_ioc_to_list_get_list(p) ==
  LET c == proc[p]
      rows == {l \in lists : l.slug = c.list_slugs[1]}
  IN
  /\ c.pc = "link_get_list"
  /\ IF rows = {}
     THEN proc' = [proc EXCEPT ![p] = Finish(c, HTTPException(404, "List not found"))]
     ELSE \E lst \in rows :
            proc' = [proc EXCEPT ![p] =
              IF ~is_ioc_type_allowed(c.ioc_type, lst.list_type)
              THEN Finish(c, HTTPException(400, "Cannot add IOC to list of this type"))
              ELSE IF lst.id \in c.existing_list_ids
              THEN Finish(c, HTTPException(409, "IOC already in list"))
              ELSE [c EXCEPT !.pc = "link_commit", !.lists = {lst},
                             !.new_links = SetToBag({ListIOC(lst.id, c.ioc_id, "api")}),
                             !.new_audit = log_ioc_added_to_list(c.ioc_id, lst.id, "api")]]
  /\ UNCHANGED <<DB, files, ioc_id_seq, ncalls, fs_failed, excl_id_seq, users, clock, probe>>

\* lines 232-235: commit, then regenerate the feed of the list
add_ioc_to_list_commit(p) ==
  LET c == proc[p] IN
  /\ c.pc = "link_commit"
  /\ IF LinkViolation(c.new_links, list_iocs)
     THEN /\ proc' = [proc EXCEPT ![p] = Finish(c, IntegrityError("uq_list_ioc"))]
          /\ UNCHANGED <<list_iocs, audit>>
     ELSE IF ForeignKeyViolation(c.new_links (+) c.new_audit, iocs)
     THEN /\ proc' = [proc EXCEPT ![p] = Finish(c, IntegrityError("fk_ioc_id"))]
          /\ UNCHANGED <<list_iocs, audit>>
     ELSE /\ list_iocs' = list_iocs (+) c.new_links
          /\ audit' = audit (+) c.new_audit
          /\ proc' = [proc EXCEPT ![p] =
               [c EXCEPT !.pc = "generate", !.regen = c.list_slugs,
                         !.new_links = EmptyBag, !.new_audit = EmptyBag]]
  /\ UNCHANGED <<iocs, comments, lists, exclusions, files, ioc_id_seq, ncalls, fs_failed,
                 excl_id_seq, users, clock, probe>>

\* ------------------------------------------------- api/lists.py delete_list
DeleteSlugs == {"x", "y", "z"}

\* DELETE FROM lists WHERE id = list_id as the tables see it: the links of the
\* list go (cascade "all, delete-orphan" of List.list_iocs, models/list.py 31,
\* and ON DELETE CASCADE of list_iocs.list_id), the audit entries that name the
\* list keep their row with list_id NULL (ON DELETE SET NULL, written 0 here)
LinksWithoutList(links, list_id) ==
  [l \in {x \in DOMAIN links : x.list_id # list_id} |-> links[l]]
RECURSIVE SetNull(_, _)
SetNull(log, list_id) ==
  IF log = EmptyBag THEN EmptyBag
  ELSE LET a == CHOOSE x \in DOMAIN log : TRUE
           rest == [x \in DOMAIN log \ {a} |-> log[x]]
           row == IF a.list_id = list_id THEN [a EXCEPT !.list_id = 0] ELSE a
       IN [x \in {row} |-> log[a]] (+) SetNull(rest, list_id)
\* what the deletion of a list does to the feed directory: nothing
\* (edl_generator.delete_edl_file is not called)
AfterListDelete(dir, slug) == dir

DeleteListRows(lst) ==
  /\ lists' = {l \in lists : l.id # lst.id}
  /\ list_iocs' = LinksWithoutList(list_iocs, lst.id)
  /\ audit' = SetNull(audit, lst.id)
  /\ files' = AfterListDelete(files, lst.slug)

delete_list_call(p) ==
  /\ CanCall(p)
  /\ \E slug \in DeleteSlugs :
       proc' = [proc EXCEPT ![p] =
         [Idle EXCEPT !.op = "delete_list", !.pc = "delete_list_get",
                      !.list_slugs = <<slug>>]]
  /\ ncalls' = ncalls + 1
  /\ UNCHANGED <<DB, files, ioc_id_seq, fs_failed, excl_id_seq, users, clock, probe>>

\* lines 207-211: look the list up by slug, 404 when there is none
delete_list_get(p) ==
  LET c == proc[p]
      rows == {l \in lists : l.slug = c.list_slugs[1]}
  IN
  /\ c.pc = "delete_list_get"
  /\ IF rows = {}
     THEN proc' = [proc EXCEPT ![p] = Finish(c, HTTPException(404, "List not found"))]
     ELSE \E list_obj \in rows :
            proc' = [proc EXCEPT ![p] = [c EXCEPT !.pc = "delete_list_commit",
                                                  !.lists = {list_obj}]]
  /\ UNCHANGED <<DB, files, ioc_id_seq, ncalls, fs_failed, excl_id_seq, users, clock, probe>>

\* lines 213-214: db.delete(list_obj) and commit
delete_list_commit(p) ==
  LET c == proc[p]
      list_obj == CHOOSE l \in c.lists : TRUE
  IN
  /\ c.pc = "delete_list_commit"
  /\ DeleteListRows(list_obj)
  /\ proc' = [proc EXCEPT ![p] = Finish(c, Ok)]
  /\ UNCHANGED <<iocs, comments, exclusions, ioc_id_seq, ncalls, fs_failed, excl_id_seq,
                 users, clock, probe>>

\* -------------------------------------------------- mcp/tools.py delete_list
mcp_delete_list_call(p) ==
  /\ CanCall(p)
  /\ \E slug \in DeleteSlugs :
       proc' = [proc EXCEPT ![p] =
         [Idle EXCEPT !.op = "mcp_delete_list", !.pc = "mcp_delete_list_get",
                      !.list_slugs = <<slug>>]]
  /\ ncalls' = ncalls + 1
  /\ UNCHANGED <<DB, files, ioc_id_seq, fs_failed, excl_id_seq, users, clock, probe>>

\* lines 600-606: look the list up by slug, success=False when there is none
mcp_delete_list_get(p) ==
  LET c == proc[p]
      rows == {l \in lists : l.slug = c.list_slugs[1]}
  IN
  /\ c.pc = "mcp_delete_list_get"
  /\ IF rows = {} THEN proc' = [proc EXCEPT ![p] = Finish(Returned(c, "False"), Ok)]
     ELSE \E lst \in rows :
            proc' = [proc EXCEPT ![p] = [c EXCEPT !.pc = "mcp_delete_list_commit",
                                                  !.lists = {lst}]]
  /\ UNCHANGED <<DB, files, ioc_id_seq, ncalls, fs_failed, excl_id_seq, users, clock, probe>>

\* lines 608-613: db.delete(lst), commit, success=True
mcp_delete_list_commit(p) ==
  LET c == proc[p]
      lst == CHOOSE l \in c.lists : TRUE
  IN
  /\ c.pc = "mcp_delete_list_commit"
  /\ DeleteListRows(lst)
  /\ proc' = [proc EXCEPT ![p] = Finish(Returned(c, "True"), Ok)]
  /\ UNCHANGED <<iocs, comments, exclusions, ioc_id_seq, ncalls, fs_failed, excl_id_seq,
                 users, clock, probe>>

\* ------------------------ services/edl_generator.py generate_all_edl_files
\* the sweep is a maintenance call: it writes no row and is not counted among
\* the calls that change the store
generate_all_edl_files_call(p) ==
  /\ proc[p].pc \in {"idle", "done"}
  /\ proc' = [proc EXCEPT ![p] =
       [Idle EXCEPT !.op = "generate_all_edl_files", !.pc = "sweep_slugs"]]
  /\ UNCHANGED <<DB, files, ioc_id_seq, ncalls, fs_failed, excl_id_seq, users, clock, probe>>

\* lines 42-43: select(List.slug), the slugs of the lists that exist
ListSlugs_with_members(rows) ==
  {l.slug : l \in {x \in rows : \E k \in BagToSet(list_iocs) : k.list_id = x.id}}
ListSlugs(rows) == {l.slug : l \in rows}

\* lines 42-51: read the slugs (in the order the store returns them), then
\* generate_edl_file for each in turn
generate_all_edl_files_slugs(p) ==
  LET c == proc[p] IN
  /\ c.pc = "sweep_slugs"
  /\ \E slugs \in Orders(ListSlugs(lists)) :
       proc' = [proc EXCEPT ![p] =
         IF slugs = <<>> THEN Finish(c, Ok)
         ELSE [c EXCEPT !.pc = "generate", !.regen = slugs]]
  /\ UNCHANGED <<DB, files, ioc_id_seq, ncalls, fs_failed, excl_id_seq, users, clock, probe>>

\* ------------------------------------------------------------------------
\* the feed directory under calls made one after the other: indicators are
\* added and unlinked, lists are deleted, writes may fail, and the sweep runs
FeedPool == {V_PUBLIC, V_DOMAIN}
FeedSlugChoices == {<<"y">>, <<"x", "y">>}
add_ioc_fed(p) == add_ioc_start(p, FeedPool, FeedSlugChoices, {None})

NextFeeds ==
  \E p \in Procs :
    \/ Alone(p) /\ add_ioc_fed(p)
    \/ Alone(p) /\ add_ioc_to_list_call(p)
    \/ Alone(p) /\ remove_ioc_from_list_call(p)
    \/ Alone(p) /\ delete_list_call(p)
    \/ Alone(p) /\ mcp_delete_list_call(p)
    \/ Alone(p) /\ generate_all_edl_files_call(p)
    \/ add_ioc_check_exclusions(p)
    \/ add_ioc_get_lists(p)
    \/ add_ioc_get_ioc(p)
    \/ add_ioc_flush(p)
    \/ add_ioc_commit(p)
    \/ add_ioc_to_list_get_ioc(p)
    \/ add_ioc_to_list_get_list(p)
    \/ add_ioc_to_list_commit(p)
    \/ remove_ioc_from_list_get(p)
    \/ remove_ioc_from_list_commit(p)
    \/ delete_list_get(p)
    \/ delete_list_commit(p)
    \/ mcp_delete_list_get(p)
    \/ mcp_delete_list_commit(p)
    \/ generate_all_edl_files_slugs(p)
    \/ generate_edl_file_read(p)
    \/ generate_edl_file_write(p)
    \/ generate_edl_file_fail(p)

SpecFeeds == Init /\ [][NextFeeds]_vars

\* ------------------------------------------------------------------------
\* the paths that create links, with rule and list updates beside them, on a
\* store that already holds indicators: "bad.com" on list x and a public
\* address on list y, both added through the API, their feeds written
StockedIocs ==
  { [id |-> 1, value |-> validate_ioc(V_DOMAIN).value, type |-> validate_ioc(V_DOMAIN).type],
    [id |-> 2, value |-> validate_ioc(V_PUBLIC).value, type |-> validate_ioc(V_PUBLIC).type] }
StockedLinks == { ListIOC(1, 1, "api"), ListIOC(2, 2, "api") }
StockedFeed(slug) ==
  IF \E l \in InitLists : l.slug = slug
  THEN sorted({r.value : r \in {x \in StockedIocs :
                 \E k \in StockedLinks, l \in InitLists :
                   k.ioc_id = x.id /\ k.list_id = l.id /\ l.slug = slug}})
  ELSE Missing
InitStocked ==
  /\ iocs = StockedIocs
  /\ list_iocs = SetToBag(StockedLinks)
  /\ comments = EmptyBag
  /\ audit = SetToBag({IOCAuditLog(r.id, "created", 0, "api") : r \in StockedIocs}
                        \cup {IOCAuditLog(k.ioc_id, "added_to_list", k.list_id, k.added_by) :
                                k \in StockedLinks})
  /\ lists = InitLists
  /\ exclusions = SeededExclusions \cup UserExclusions
  /\ files = [s \in Slugs |-> StockedFeed(s)]
  /\ ioc_id_seq = Cardinality(StockedIocs)
  /\ excl_id_seq = LastExclusionId
  /\ proc = [p \in Procs |-> Idle]
  /\ ncalls = 0
  /\ fs_failed = FALSE
  /\ users = InitUsers
  /\ clock = 0
  /\ probe = NoProbe

LinkPool == {V_PUBLIC, V_DOMAIN}
add_ioc_linked(p) == add_ioc_start(p, LinkPool, FeedSlugChoices, {None})

NextLinks ==
  \E p \in Procs :
    \/ add_ioc_linked(p)
    \/ bulk_add_iocs_call(p)
    \/ add_ioc_to_list_call(p)
    \/ update_list_call(p)
    \/ add_exclusion_call(p)
    \/ add_ioc_check_exclusions(p)
    \/ add_ioc_get_lists(p)
    \/ add_ioc_get_ioc(p)
    \/ add_ioc_flush(p)
    \/ add_ioc_commit(p)
    \/ bulk_add_iocs_get_list(p)
    \/ bulk_add_iocs_load_exclusions(p)
    \/ bulk_add_iocs_value(p)
    \/ bulk_add_iocs_flush(p)
    \/ bulk_add_iocs_commit(p)
    \/ add_ioc_to_list_get_ioc(p)
    \/ add_ioc_to_list_get_list(p)
    \/ add_ioc_to_list_commit(p)
    \/ update_list_load(p)
    \/ update_list_check_slug(p)
    \/ update_list_commit(p)
    \/ add_exclusion_duplicate(p)
    \/ add_exclusion_preview(p)
    \/ add_exclusion_purge(p)
    \/ add_exclusion_commit(p)
    \/ generate_edl_file_read(p)
    \/ generate_edl_file_write(p)
    \/ generate_edl_file_fail(p)

SpecLinks == InitStocked /\ [][NextLinks]_vars

\* ----------------------------------------------------------------- claims
Moved(p) == proc'[p] # proc[p]
Abandoned(p) == proc'[p].outcome.kind = "abandoned"
Rows == <<iocs, list_iocs, comments, audit>>
SessionEmpty(c) ==
  c.new_iocs = {} /\ c.new_links = EmptyBag /\ c.new_comments = EmptyBag
    /\ c.new_audit = EmptyBag /\ c.del_iocs = {} /\ c.del_links = {}
Existing == {l.slug : l \in lists}

RECURSIVE SumCopies(_, _)
SumCopies(S, B) ==
  IF S = {} THEN 0
  ELSE LET x == CHOOSE y \in S : TRUE IN CopiesIn(x, B) + SumCopies(S \ {x}, B)
LinkCount(list_id, ioc_id, links) ==
  SumCopies({l \in BagToSet(links) : l.list_id = list_id /\ l.ioc_id = ioc_id}, links)
AddedLogCount(list_id, ioc_id, log) ==
  SumCopies({a \in BagToSet(log) : a.action = "added_to_list" /\ a.list_id = list_id
                                     /\ a.ioc_id = ioc_id}, log)

\* C1: a value that matches a rule of the loaded exclusion set is never
\* accepted: add_ioc ends with IOCExcludedError carrying the id, pattern and
\* reason of a matching rule, bulk_add_iocs reports the value under 'failed',
\* and nothing is created for the value.
C1_ExcludedRejected ==
  [][\A p \in Procs :
      LET c == proc[p]
          raw == c.values[c.i]
          v == validate_ioc(raw)
      IN
      /\ (c.op = "add_ioc" /\ c.pc = "check_exclusions" /\ Moved(p) /\ ~Abandoned(p)
            /\ \E e \in exclusions :
                 _matches_exclusion(c.normalized_value, c.ioc_type, e) = "True")
           => /\ proc'[p].pc = "done"
              /\ proc'[p].outcome.kind = "IOCExcludedError"
              /\ \E e \in exclusions :
                   /\ _matches_exclusion(c.normalized_value, c.ioc_type, e) = "True"
                   /\ proc'[p].outcome.match.exclusion_id = e.id
                   /\ proc'[p].outcome.match.value = e.value
                   /\ proc'[p].outcome.match.reason = e.reason
              /\ Rows' = Rows
      /\ (c.op = "bulk_add_iocs" /\ c.pc = "value" /\ Moved(p) /\ ~Abandoned(p) /\ v.ok
            /\ \E e \in c.loaded : _matches_exclusion(v.value, v.type, e) = "True")
           => /\ Len(proc'[p].results.failed) = Len(c.results.failed) + 1
              /\ proc'[p].results.failed[Len(c.results.failed) + 1][1] = raw
              /\ proc'[p].results.added = c.results.added
              /\ proc'[p].new_iocs = c.new_iocs /\ proc'[p].new_links = c.new_links
              /\ proc'[p].new_comments = c.new_comments
              /\ proc'[p].new_audit = c.new_audit
              /\ Rows' = Rows]_vars

\* C2: add_ioc leaves exactly one link for each (list, indicator) pair it
\* targets; when the pair is already linked by an earlier call, the call ends
\* without an error and adds no link and no 'added-to-list' audit entry.
C2_ReAddKeepsOneLink ==
  [][\A p \in Procs :
      LET c == proc[p] IN
      (c.op = "add_ioc" /\ c.pc = "commit" /\ Moved(p) /\ ~Abandoned(p))
        => \A l \in c.lists :
             /\ LinkCount(l.id, c.ioc_id, list_iocs') = 1
             /\ LinkCount(l.id, c.ioc_id, list_iocs) = 1
                  => /\ proc'[p].outcome.kind \in {None, "ok"}
                     /\ AddedLogCount(l.id, c.ioc_id, audit')
                          = AddedLogCount(l.id, c.ioc_id, audit)]_vars

\* a second call, by the other caller, has re-added a value to list y and ended well
C2_Witness ==
  \E p \in Procs :
    /\ proc[p].op = "add_ioc" /\ proc[p].pc = "done" /\ proc[p].outcome.kind = "ok"
    /\ "y" \in Range(proc[p].list_slugs)
    /\ \E r \in iocs :
         /\ r.value = validate_ioc(proc[p].value).value
         /\ LinkCount(2, r.id, list_iocs) = 1
         /\ AddedLogCount(2, r.id, audit) = 1
         /\ \A l \in BagToSet(list_iocs) : l.added_by # Actor(p)

\* C3: of two concurrent add_ioc calls that both found no indicator for the
\* value, neither ends in an error: the loser of the insert falls back to the
\* existing indicator.
C3_RaceFallsBack ==
  \A p \in Procs :
    (proc[p].op = "add_ioc" /\ proc[p].pc = "done")
      => ~(proc[p].outcome.kind = "IntegrityError"
             /\ proc[p].outcome.constraint = "ix_iocs_value")

\* C4: at most one indicator row, committed or not, exists for a normalized value.
AllIndicatorRows == iocs \cup UNION {proc[p].new_iocs : p \in Procs}
C4_OneRowPerValue ==
  \A r1, r2 \in AllIndicatorRows : r1.value = r2.value => r1 = r2

\* two calls raced on one value: one row is committed, the other insert was refused
C4_Witness ==
  \E p \in Procs :
    /\ proc[p].op = "add_ioc" /\ proc[p].outcome.constraint = "ix_iocs_value"
    /\ \E r \in iocs : r.value = validate_ioc(proc[p].value).value

\* the kinds a list type admits (section 4.3 of the specification)
AllowedKinds(list_type) ==
  CASE list_type = "mixed" -> {"ip", "domain", "wildcard", "md5", "sha1", "sha256"}
    [] list_type = "ip" -> {"ip"}
    [] list_type = "domain" -> {"domain", "wildcard"}
    [] list_type = "hash" -> {"md5", "sha1", "sha256"}
    [] OTHER -> {}
DeniedTypes(c, ioc_type) ==
  {l.list_type : l \in {x \in lists : x.slug \in Range(c.list_slugs)
                                        /\ ioc_type \notin AllowedKinds(x.list_type)}}

PreCommit == {"check_exclusions", "get_lists", "get_ioc", "flush", "commit",
              "get_list", "load_exclusions", "value", "remove", "duplicate",
              "preview", "purge"}
Committed(p) ==
  proc[p].pc = "commit" /\ proc'[p].outcome.kind \in {None, "ok", "InvalidRequestError"}
C7_Atomic ==
  [][\A p \in Procs :
      LET c == proc[p] IN
      (Moved(p) /\ c.pc \in PreCommit)
        => /\ IF Committed(p)
              THEN /\ iocs' = {r \in iocs \cup c.new_iocs : r.id \notin c.del_iocs}
                   /\ c.new_audit \sqsubseteq audit'
                   /\ c.new_links \sqsubseteq list_iocs'
                   /\ c.new_comments \sqsubseteq comments'
                   /\ c.op = "add_ioc"
                        => /\ \A l \in c.lists : LinkCount(l.id, c.ioc_id, list_iocs') = 1
                           /\ c.comment # None
                                => \E n \in BagToSet(comments') :
                                     n.ioc_id = c.ioc_id /\ n.comment = c.comment
                   /\ c.op = "add_exclusion"
                        => \E e \in exclusions' \ exclusions :
                             e.value = lower(strip(c.value))
                   /\ c.op # "add_exclusion" => exclusions' = exclusions
                   /\ \A r \in BagToSet(list_iocs') \cup BagToSet(comments')
                                \cup BagToSet(audit') : r.ioc_id \notin c.del_iocs
                   /\ \A d \in c.del_links : LinkCount(d.list_id, d.ioc_id, list_iocs') = 0
              ELSE Rows' = Rows /\ exclusions' = exclusions
           /\ proc'[p].pc \in {"done", "generate"} => SessionEmpty(proc'[p])]_vars

\* a purge marked a linked indicator for deletion and was then abandoned: the
\* indicator, its link and the rule set are as they were
C7_Witness ==
  \E q \in Procs :
    /\ proc[q].op = "add_exclusion" /\ proc[q].outcome.kind = "abandoned"
    /\ proc[q].results.purged # {}
    /\ exclusions = SeededExclusions \cup UserExclusions
    /\ \E r \in iocs : r.value \in proc[q].results.purged
                          /\ LinkCount(2, r.id, list_iocs) = 1

\* C8: when no call is open and no feed write has failed, the feed file of
\* every list that has a file or a member holds exactly the sorted values of
\* the members of the list.
C8_FeedsMatchMembers ==
  (Quiet /\ ~fs_failed)
    => \A l \in lists :
         (files[l.slug] # Missing \/ Members(l) # {})
           => files[l.slug] = sorted(Members(l))

C10_BulkPartition ==
  [][\A p \in Procs :
      LET c == proc[p]
          d == proc'[p]
          slug == c.list_slugs[1]
      IN
      (c.op = "bulk_add_iocs" /\ c.pc # "done" /\ d.pc = "done"
         /\ d.outcome.kind \notin {"abandoned", "ListNotFoundError", "OSError"})
        => /\ d.outcome.kind = "ok"
           /\ Len(d.results.added) + Len(d.results.skipped) + Len(d.results.failed)
                = Len(c.values)
           /\ Range(d.results.added) \cap c.before = {}
           /\ \A l \in lists' :
                l.slug = slug
                  => /\ {r.value : r \in {x \in iocs' : l.id \in LinkedListIds(x.id, list_iocs')}}
                          = c.before \cup Range(d.results.added)
                     /\ files'[slug] = sorted(c.before \cup Range(d.results.added))]_vars

\* ---- C11
\* the indicator rows a step deletes
RemovedIndicators == iocs \ iocs'
\* nothing that refers to indicator row r is left after the step
GoneWithAll(r) ==
  /\ \A l \in BagToSet(list_iocs') : l.ioc_id # r.id
  /\ \A k \in BagToSet(comments') : k.ioc_id # r.id
  /\ \A a \in BagToSet(audit') : a.ioc_id # r.id
\* the step of p is the commit of delete_ioc (called directly or by
\* unblock_ioc with all_lists) or of bulk_remove_iocs with all_lists
DeletesIndicator(p) ==
  \/ proc[p].pc = "delete"
  \/ proc[p].op = "bulk_remove_iocs" /\ proc[p].pc = "commit" /\ proc[p].all_lists
\* the step of p is the commit of add_exclusion with its purge
PurgesIndicator(p) ==
  proc[p].op = "add_exclusion" /\ proc[p].pc = "commit" /\ proc[p].purge_conflicts
\* the step of p that deletes a link leaves the indicator, its comments and
\* every other link as they were
UnlinkKeepsTheRest ==
  \A p \in Procs :
    proc[p].pc = "delete_link" /\ Moved(p) =>
      /\ iocs' = iocs
      /\ comments' = comments
      /\ BagToSet(list_iocs') \subseteq BagToSet(list_iocs)
      /\ \A l \in BagToSet(list_iocs) :
           [list_id |-> l.list_id, ioc_id |-> l.ioc_id] \notin proc[p].del_links
             => CopiesIn(l, list_iocs') = CopiesIn(l, list_iocs)

\* C11 as stated: removing an indicator from a list deletes only that link and
\* leaves the indicator, its comments and its other links, even when the link
\* was its last one; an indicator row is removed only by delete_ioc or by a
\* bulk removal with all_lists, together with all its links, comments and
\* audit entries
C11_OnlyDeleteRemoves ==
  [][/\ UnlinkKeepsTheRest
     /\ \A r \in RemovedIndicators :
          /\ \E p \in Procs : Moved(p) /\ DeletesIndicator(p)
          /\ GoneWithAll(r)]_vars

\* C11 amended: the same, with the purge of add_exclusion as the third
\* operation that removes indicator rows
C11_UnlinkKeepsIndicator ==
  [][/\ UnlinkKeepsTheRest
     /\ \A r \in RemovedIndicators :
          /\ \E p \in Procs : Moved(p) /\ (DeletesIndicator(p) \/ PurgesIndicator(p))
          /\ GoneWithAll(r)]_vars

\* an indicator whose last link was removed is still there with its comment
C11_Witness ==
  \E p \in Procs, r \in iocs :
    /\ proc[p].op = "remove_ioc_from_list" /\ proc[p].pc = "done"
    /\ proc[p].results.returned = "True"
    /\ LinkedListIds(r.id, list_iocs) = {}
    /\ \E k \in BagToSet(comments) : k.ioc_id = r.id

\* ---- C12
\* C12: every deletion of an indicator writes an audit entry with action
\* 'deleted' for it: the session that deletes the row holds such an entry
C12_DeletionIsLogged ==
  [][\A r \in iocs \ iocs' :
       \E p \in Procs :
         /\ Moved(p)
         /\ \E a \in BagToSet(proc[p].new_audit) :
              a.ioc_id = r.id /\ a.action = "deleted"]_vars

\* ---- C13
\* the step of p asks for the removal of a built-in rule: by value through
\* remove_exclusion, by id through DELETE /api/settings/exclusions/{id}
AsksBuiltinByValue(p) ==
  /\ proc[p].pc = "get_exclusion" /\ Moved(p)
  /\ \E e \in exclusions : e.is_builtin /\ e.value = lower(strip(proc[p].value))
AsksBuiltinById(p) ==
  /\ proc[p].pc = "get_exclusion_by_id" /\ Moved(p)
  /\ \E e \in exclusions : e.is_builtin /\ e.id = proc[p].excl_id

\* C13: built-in rules cannot be removed: after every step the built-in rules
\* are the seeded ones, with value, type and reason as seeded; an attempt to
\* remove one is refused (BuiltinExclusionError from the service, HTTP 400
\* from the route) and leaves the database as it was
C13_BuiltinsStay ==
  [][/\ {e \in exclusions' : e.is_builtin} = SeededExclusions
     /\ \A p \in Procs :
          /\ AsksBuiltinByValue(p) =>
               /\ proc'[p].pc = "done"
               /\ proc'[p].outcome.kind = "BuiltinExclusionError"
               /\ DB' = DB
          /\ AsksBuiltinById(p) =>
               /\ proc'[p].pc = "done"
               /\ proc'[p].outcome.kind = "HTTPException"
               /\ proc'[p].outcome.status_code = 400
               /\ DB' = DB]_vars

\* a built-in rule was asked to be removed and refused, while the rule the
\* administrator added was removed
C13_Witness ==
  \E p \in Procs, q \in Procs :
    /\ proc[p].op = "remove_exclusion" /\ proc[p].pc = "done"
    /\ proc[p].outcome.kind = "BuiltinExclusionError"
    /\ proc[q].op = "delete_exclusion" /\ proc[q].pc = "done"
    /\ proc[q].outcome.kind = "ok"
    /\ exclusions = SeededExclusions

\* ---- C14
\* the stored indicators the rule of call c matches, by the matcher the purge uses
Conflicting(c) ==
  {r \in iocs :
     _ioc_matches_exclusion(r.value, r.type, strip(c.value), c.excl_type) = "True"}

\* the slugs of the lists that hold an indicator the rule of call c matches
Holding(c) ==
  {l.slug : l \in {x \in lists :
     \E r \in Conflicting(c) : x.id \in LinkedListIds(r.id, list_iocs)}}

\* C14: add_exclusion(value, purge=true), calls made one after the other: its
\* commit stores the rule as a user rule and deletes, with their links, exactly
\* the indicators that existed before the call and match the rule; the purged
\* values it reports are those; the feed of every list that held one of them
\* is written again, without the purged values, before the call completes
C14_PurgeOnAdd ==
  [][\A p \in Procs :
       LET c == proc[p] d == proc'[p] IN
       /\ c.op = "add_exclusion" /\ c.purge_conflicts /\ c.pc = "commit" /\ Moved(p)
            /\ d.outcome.kind \in {None, "ok"} =>
            /\ \E e \in exclusions' \ exclusions :
                 e.value = lower(strip(c.value)) /\ ~e.is_builtin
            /\ iocs' = iocs \ Conflicting(c)
            /\ \A r \in Conflicting(c) : LinkedListIds(r.id, list_iocs') = {}
            /\ \A l \in BagToSet(list_iocs) :
                 l.ioc_id \notin {r.id : r \in Conflicting(c)}
                   => CopiesIn(l, list_iocs') = CopiesIn(l, list_iocs)
            /\ d.results.purged = {r.value : r \in Conflicting(c)}
            /\ IF Holding(c) = {} THEN d.pc = "done"
               ELSE d.pc = "generate" /\ Range(d.regen) = Holding(c)
       /\ c.op = "add_exclusion" /\ c.purge_conflicts /\ c.pc = "write" /\ Moved(p)
            /\ d.outcome.kind \in {None, "ok"} =>
            /\ \A v \in c.results.purged : v \notin Range(files'[Head(c.regen)])
            /\ d.regen = IF d.pc = "done" THEN <<>> ELSE Tail(c.regen)
            /\ d.pc = "done" <=> Tail(c.regen) = <<>>]_vars

\* a purge that deleted an indicator that was on list y, whose feed was
\* written again without it
C14_Witness ==
  \E p \in Procs, q \in Procs :
    /\ proc[p].op = "add_ioc" /\ proc[p].pc = "done" /\ proc[p].outcome.kind = "ok"
    /\ proc[p].list_slugs = <<"y">>
    /\ proc[q].op = "add_exclusion" /\ proc[q].pc = "done"
    /\ proc[q].outcome.kind = "ok"
    /\ proc[q].results.purged = {validate_ioc(proc[p].value).value}
    /\ iocs = {}
    /\ files["y"] = <<>>

\* ---- C15
\* C15: for every indicator and every rule the matcher of the conflict preview
\* and the matcher of check_exclusions give the same answer
C15_MatchersAgree ==
  probe.op = "match" /\ probe.preview # None /\ probe.enforce # None
    => probe.preview = probe.enforce

\* ---- C16
\* C16: the slug of a list never changes after the list was created, whatever
\* update is applied to it
C16_SlugNeverChanges ==
  [][\A l \in lists : \A k \in lists' : k.id = l.id => k.slug = l.slug]_vars

\* ---- C17
\* the kinds of the indicators that are members of list row l
MemberKinds(l) ==
  {r.type : r \in {x \in iocs : l.id \in LinkedListIds(x.id, list_iocs)}}
\* the step of p belongs to an update of a list through the route or the tool
UpdatesList(p) == proc[p].op \in {"update_list", "mcp_update_list"} /\ Moved(p)

\* C17: changing a list's type, calls made one after the other: a request
\* whose new type disallows the kind of a current member is refused with HTTP
\* 400 and changes nothing; a step that changes the type of a list leaves it
\* with a type that allows the kind of every member; and no step of an update
\* removes or adds a member
C17_TypeChangeValidated ==
  [][\A p \in Procs :
       LET c == proc[p] d == proc'[p] IN
       /\ c.op = "update_list" /\ c.pc = "load_list" /\ Moved(p) =>
            \A l \in lists :
              /\ l.slug = c.list_slugs[1]
              /\ c.list_type # None /\ c.list_type # l.list_type
              /\ \E k \in MemberKinds(l) : k \notin AllowedKinds(c.list_type)
              => /\ d.pc = "done"
                 /\ d.outcome.kind = "HTTPException" /\ d.outcome.status_code = 400
                 /\ DB' = DB
       /\ \A l \in lists : \A k \in lists' :
            k.id = l.id /\ k.list_type # l.list_type /\ Moved(p) =>
              /\ c.op = "update_list" /\ c.pc = "save_list"
              /\ k.list_type = c.list_type
              /\ MemberKinds(l) \subseteq AllowedKinds(k.list_type)
       /\ UpdatesList(p) => iocs' = iocs /\ list_iocs' = list_iocs]_vars

\* a list with a domain member was asked to become an ip list, was refused,
\* and is as it was
C17_Witness ==
  \E p \in Procs, l \in lists :
    /\ proc[p].op = "update_list" /\ proc[p].pc = "done"
    /\ proc[p].list_type = "ip"
    /\ proc[p].outcome.kind = "HTTPException" /\ proc[p].outcome.status_code = 400
    /\ l.slug = proc[p].list_slugs[1] /\ l.list_type = "mixed"
    /\ "domain" \in MemberKinds(l)

\* ---- C18
\* the normalized form of a raw value, as the specification of add_ioc gives
\* it: no surrounding whitespace, lower case, host bits of a network cleared
Canonical(v) ==
  [v EXCEPT !.ws = FALSE, !.up = FALSE,
            !.a = IF v.t = "net" THEN v.a - (v.a % (2 ^ (AddrBits - v.n))) ELSE v.a]
\* an add_ioc call that ended well and the indicator it returned
Accepted(p) ==
  proc[p].op = "add_ioc" /\ proc[p].pc = "done" /\ proc[p].outcome.kind = "ok"
\* C18: a lookup by the raw value that add_ioc accepted finds the indicator
\* add_ioc created from it: after add_ioc(v), a following unblock_ioc(v) or
\* add_ioc_comment(v) does not answer that there is no such indicator, and a
\* following bulk_remove_iocs([v]) does not list v as not found (removals from
\* all lists, where not finding the indicator is the only way to fail)
C18_LookupsNormalize ==
  [][\A p \in Procs : \A q \in Procs \ {p} :
       LET c == proc[q] d == proc'[q] IN
       Accepted(p) /\ proc'[p] = proc[p] /\ Moved(q)
         /\ proc[p].results.ioc \subseteq iocs =>
         /\ c.pc = "get_for_comment" /\ c.value = proc[p].value
              => ~(d.pc = "done" /\ d.results.returned = "False")
         /\ c.pc = "find" /\ c.value = proc[p].value /\ c.all_lists
              => ~(d.pc = "done" /\ d.results.returned = "False")
         /\ c.op = "bulk_remove_iocs" /\ c.pc = "remove" /\ c.all_lists
              /\ c.values[c.i] = proc[p].value
              => d.results.not_found = c.results.not_found]_vars

\* ---- C19
\* C19: two add_ioc calls whose raw values differ only in letter case,
\* surrounding whitespace or host bits of a network return one and the same
\* indicator row (as long as it was not deleted in between), and the value an
\* accepted call stored or found is the normalized form of its raw value
C19_SpellingsCollapse ==
  \A p \in Procs : \A q \in Procs :
    Accepted(p) /\ Accepted(q)
      /\ Canonical(proc[p].value) = Canonical(proc[q].value) =>
      /\ proc[p].results.ioc # {}
      /\ \A r \in proc[p].results.ioc : r.value = Canonical(proc[p].value)
      /\ proc[p].results.ioc \subseteq iocs /\ proc[q].results.ioc \subseteq iocs
           => proc[p].results.ioc = proc[q].results.ioc

\* a network given with host bits and the same network given without them
\* came back as one row
C19_Witness ==
  \E p \in Procs : \E q \in Procs \ {p} :
    /\ Accepted(p) /\ Accepted(q)
    /\ proc[p].value = Net(4, 136, 4) /\ proc[q].value = Net(4, 128, 4)
    /\ proc[p].results.ioc = proc[q].results.ioc
    /\ proc[p].results.ioc \subseteq iocs
    /\ Cardinality(iocs) = 1

\* ---- C20
\* the account of user u is locked now
Locked(u) ==
  u \in DOMAIN users /\ users[u].locked_until # NoTime /\ users[u].locked_until > clock

\* C20: a login attempt on an account that is locked is answered with HTTP
\* 423; an attempt with wrong credentials on an account that is not locked is
\* answered with 401
C20_LockedIs423 ==
  [][\A p \in Procs :
       LET c == proc[p] d == proc'[p] IN
       c.op = "login" /\ c.pc = "get_user" /\ Moved(p) =>
         /\ Locked(c.username) =>
              /\ d.pc = "done" /\ d.outcome.kind = "HTTPException"
              /\ d.outcome.status_code = 423
         /\ ~Locked(c.username) /\ d.pc = "done" =>
              d.outcome.kind = "HTTPException" /\ d.outcome.status_code = 401]_vars

\* ---- C21
\* C21: the commit that records the fifth failed password check in a row sets
\* locked_until, and a commit that records fewer leaves an unlocked account
\* unlocked; while locked_until is in the future a call does not return the
\* user, whatever the password: it is refused as locked (AccountLockedError,
\* which login answers with its locked response) and leaves failed_attempts
\* and locked_until as they were
C21_LockoutHolds ==
  [][\A p \in Procs :
       LET c == proc[p] d == proc'[p] u == c.username IN
       /\ c.op = "login" /\ c.pc = "save_user" /\ Moved(p) /\ ~c.user.ok =>
            /\ c.user.new.failed_attempts >= MAX_FAILED_ATTEMPTS
                 => users'[u].locked_until # NoTime
            /\ c.user.new.failed_attempts < MAX_FAILED_ATTEMPTS
                 /\ users[u].locked_until = NoTime
                 => users'[u].locked_until = NoTime
       /\ c.op = "login" /\ c.pc = "get_user" /\ Moved(p) /\ Locked(u) =>
            /\ d.pc = "done"
            /\ d.outcome = LockedResponse(users[u].locked_until)
            /\ users' = users]_vars

\* ---- C22
\* the text of v ends with "." followed by the labels S
EndsWithDot(v, S) ==
  /\ v.t = "name" /\ Len(S) <= Len(v.labels)
  /\ SubSeq(v.labels, Len(v.labels) - Len(S) + 1, Len(v.labels)) = S
  /\ (v.star \/ Len(v.labels) > Len(S))
\* the probe holds the answer of check_exclusions' matcher for a rule of type t
Enforced(t) == probe.op = "match" /\ probe.enforce # None /\ probe.rule.type = t

\* C22: with a wildcard rule "*.S" check_exclusions matches an indicator
\* exactly when its kind is domain or wildcard and its value ends with ".S"
C22_WildcardMatches ==
  Enforced("wildcard") =>
    (probe.enforce = "True"
       <=> /\ probe.ioc_type \in {"domain", "wildcard"}
           /\ EndsWithDot(probe.value, probe.rule.value.labels))

\* ---- C23
\* C23: check_exclusions never raises: for every validated indicator and every
\* rule its matcher answers match or no match
C23_NeverRaises ==
  probe.op = "match" /\ probe.enforce # None => probe.enforce \in {"True", "False"}

\* ---- C24
\* the range of addresses the text v stands for, v being an address or a
\* network (host bits ignored), as [fam, lo, hi]
AddrRange(v) ==
  LET n == IF v.t = "net" THEN v.n ELSE AddrBits
      size == 2 ^ (AddrBits - n)
      lo == v.a - (v.a % size)
  IN [fam |-> v.fam, lo |-> lo, hi |-> lo + size - 1]
\* indicator v lies inside the network of the rule text r
Inside(v, r) ==
  /\ v.t \in {"addr", "net"} /\ r.t = "net"
  /\ AddrRange(v).fam = AddrRange(r).fam
  /\ AddrRange(r).lo <= AddrRange(v).lo /\ AddrRange(v).hi <= AddrRange(r).hi

\* C24: a CIDR rule matches an ip-kind indicator exactly when the indicator is
\* an address inside the rule's network or a network that is a subnet of it;
\* this holds for the matcher of check_exclusions and for the matcher of the
\* conflict preview
C24_CidrMatches ==
  probe.op = "match" /\ probe.rule.type = "cidr" /\ probe.ioc_type = "ip" =>
    /\ probe.enforce # None
         => (probe.enforce = "True" <=> Inside(probe.value, probe.rule.value))
    /\ probe.preview # None
         => (probe.preview = "True" <=> Inside(probe.value, probe.rule.value))

\* a network indicator that is a subnet of a rule given with host bits was
\* matched by both matchers
C24_Witness ==
  /\ probe.op = "match" /\ probe.rule.type = "cidr"
  /\ probe.rule.value = Net(4, 165, 4) /\ probe.value = Net(4, 160, 6)
  /\ probe.enforce = "True" /\ probe.preview = "True"

\* ---- C25
\* the step of p starts an add_ioc call
StartsAddIoc(p) ==
  proc[p].pc \in {"idle", "done"} /\ proc'[p].op = "add_ioc" /\ ncalls' = ncalls + 1

\* C25: add_ioc checks in the order validate, exclusions, list resolution,
\* type policy, and the error raised is the first that applies: an invalid
\* value ends the call with IOCValidationError at once; a value that matches a
\* rule ends it with IOCExcludedError whatever the slugs; a missing slug ends
\* it with ListNotFoundError whatever the list types; a disallowed kind ends
\* it with ListTypeMismatchError. No step before the commit changes a stored
\* row, and the feed files are rewritten only after the commit.
C25_CheckOrder ==
  [][\A p \in Procs :
       LET c == proc[p] d == proc'[p] IN
       /\ StartsAddIoc(p) /\ ~validate_ioc(d.value).ok =>
            d.pc = "done" /\ d.outcome.kind = "IOCValidationError"
       /\ c.op = "add_ioc" /\ Moved(p) /\ ~Abandoned(p) /\ ~StartsAddIoc(p) =>
            /\ c.pc = "check_exclusions"
                 /\ (\E e \in exclusions :
                       _matches_exclusion(c.normalized_value, c.ioc_type, e) = "True")
                 => d.pc = "done" /\ d.outcome.kind = "IOCExcludedError"
            /\ c.pc = "get_lists" /\ Range(c.list_slugs) \ Existing # {}
                 => d.pc = "done" /\ d.outcome.kind = "ListNotFoundError"
            /\ c.pc = "get_lists" /\ Range(c.list_slugs) \subseteq Existing
                 /\ DeniedTypes(c, c.ioc_type) # {}
                 => d.pc = "done" /\ d.outcome.kind = "ListTypeMismatchError"
            /\ c.pc \in {"check_exclusions", "get_lists", "get_ioc", "flush"}
                 => Rows' = Rows
            /\ files' # files => c.pc = "write"
            /\ d.pc = "generate" /\ c.pc \notin {"generate", "write"}
                 => c.pc = "commit" /\ c.new_links \sqsubseteq list_iocs']_vars

\* ---- C26
\* the audit entries of one action about one indicator (and one list), in log
LogCount(action, ioc_id, list_id, performed_by, log) ==
  SumCopies({a \in BagToSet(log) :
               /\ a.action = action /\ a.ioc_id = ioc_id
               /\ a.list_id = list_id /\ a.performed_by = performed_by}, log)
NewRows == iocs' \ iocs
NewLinks == list_iocs' (-) list_iocs
NewLog == audit' (-) audit

\* C26: a step of add_ioc or bulk_add_iocs that stores rows stores exactly one
\* 'created' audit entry for each indicator row it inserts and exactly one
\* 'added_to_list' entry, with the list id and the actor, for each link it
\* inserts, and no other audit entry: none for an indicator that existed and
\* none for a link that was skipped.
C26_AuditPerRow ==
  [][\A p \in Procs :
       LET c == proc[p] IN
       c.op \in {"add_ioc", "bulk_add_iocs"} /\ Moved(p) /\ ~Abandoned(p) =>
         /\ \A r \in NewRows :
              LogCount("created", r.id, 0, c.added_by, NewLog) = 1
         /\ \A l \in BagToSet(NewLinks) :
              /\ CopiesIn(l, NewLinks) = 1
              /\ l.added_by = c.added_by
              /\ LogCount("added_to_list", l.ioc_id, l.list_id, c.added_by, NewLog) = 1
         /\ \A a \in BagToSet(NewLog) :
              \/ a.action = "created" /\ a.ioc_id \in {r.id : r \in NewRows}
              \/ /\ a.action = "added_to_list"
                 /\ \E l \in BagToSet(NewLinks) :
                      l.ioc_id = a.ioc_id /\ l.list_id = a.list_id
         /\ BagCardinality(NewLog) = Cardinality(NewRows) + BagCardinality(NewLinks)
         /\ audit \sqsubseteq audit']_vars

\* a batch has committed a link with its entry and skipped a link that existed,
\* and the log holds fewer 'created' entries than 'added_to_list' entries
C26_Witness ==
  \E p \in Procs :
    /\ proc[p].op = "bulk_add_iocs" /\ proc[p].pc = "done"
    /\ proc[p].results.added # <<>> /\ proc[p].results.skipped # <<>>
    /\ \E a \in BagToSet(audit) : a.action = "added_to_list"
    /\ \E r \in iocs :
         /\ LogCount("created", r.id, 0, "api", audit)
              + LogCount("created", r.id, 0, "mcp", audit) = 1
         /\ \E l \in BagToSet(list_iocs) : l.ioc_id = r.id

\* ---- C27
\* the values of the indicators linked to list row l, read from the tables
LinkedValues(l) ==
  {r.value : r \in {x \in iocs : \E k \in BagToSet(list_iocs) :
                                   k.list_id = l.id /\ k.ioc_id = x.id}}
\* file content f holds exactly the values of S, each once, in ascending order
SortedFeedOf(f, S) ==
  /\ f # Missing
  /\ Len(f) = Cardinality(S)
  /\ Range(f) = S
  /\ \A i \in 1..Len(f) : \A j \in 1..Len(f) : i < j => StrLess(f[i], f[j])
InSync == \A l \in lists : SortedFeedOf(files[l.slug], LinkedValues(l))
Sweeping(p) == proc[p].op = "generate_all_edl_files"

\* C27: with calls made one after the other, a sweep that returns leaves the
\* feed file of every existing list equal to the sorted values of the members
\* of the list, whatever the files held when it started; and a sweep that
\* starts when every file is already so changes no file in any of its steps.
C27_SweepRestores ==
  [][\A p \in Procs :
       Sweeping(p) /\ Moved(p) =>
         /\ (proc'[p].pc = "done" /\ proc'[p].outcome.kind = "ok") => InSync'
         /\ InSync => files' = files
         /\ DB' = DB]_vars

\* a sweep has returned after a failed write had left the file of list y
\* missing or stale: the list has two members and the file holds both
C27_Witness ==
  \E p \in Procs :
    /\ Sweeping(p) /\ proc[p].pc = "done" /\ proc[p].outcome.kind = "ok"
    /\ fs_failed
    /\ \E l \in lists : l.slug = "y" /\ Len(files["y"]) = 2
                        /\ Cardinality(LinkedValues(l)) = 2

\* ---- C28
\* C28: every stored link joins an indicator whose kind the type of its list
\* allows (mixed: every kind; ip: ip; domain: domain and wildcard; hash: md5,
\* sha1, sha256), in every state reached by add_ioc, bulk_add_iocs, the
\* endpoint that links a stored indicator and list updates run side by side.
C28_LinksObeyType ==
  \A k \in BagToSet(list_iocs) :
    \A l \in lists : \A r \in iocs :
      (l.id = k.list_id /\ r.id = k.ioc_id) => r.type \in AllowedKinds(l.list_type)

\* ---- C29
\* the stored rules that match indicator row r as the enforcement matcher sees it
ActiveRulesFor(r) ==
  {e \in exclusions : _matches_exclusion(r.value, r.type, e) = "True"}

\* C29: no step stores a link for an indicator that a rule stored at that
\* moment matches, whichever call takes the step: add_ioc, bulk_add_iocs or
\* the endpoint that links a stored indicator.
C29_NoLinkForExcluded ==
  [][\A k \in BagToSet(list_iocs' (-) list_iocs) :
       \A r \in iocs' : r.id = k.ioc_id => ActiveRulesFor(r) = {}]_vars

\* ---- C30
DeletesList(p) ==
  /\ proc[p].op \in {"delete_list", "mcp_delete_list"}
  /\ proc[p].pc \in {"delete_list_commit", "mcp_delete_list_commit"}
  /\ proc'[p].pc = "done" /\ proc'[p].outcome.kind = "ok"

\* C30: a step that deletes a list, through the API or the MCP tool, leaves no
\* link of that list, keeps every indicator row, and leaves no feed file under
\* the slug of the deleted list.
C30_DeletedListIsGone ==
  [][\A p \in Procs :
       DeletesList(p) =>
         \A l \in proc[p].lists :
           /\ l \notin lists'
           /\ \A k \in BagToSet(list_iocs') : k.list_id # l.id
           /\ iocs' = iocs
           /\ files'[l.slug] = Missing]_vars
====
